---- MODULE Spec2Model ----
(***************************************************************************)
(* A model of the firestore-orm transactional context (src/src/context.js), *)
(* the model runtime (src/src/models.js) and the field runtime              *)
(* (src/unnamed/part_005), running against a document store with           *)
(* server-managed transactions.                                            *)
(***************************************************************************)
EXTENDS Integers, Sequences, FiniteSets, TLC

\* ------------------------------------------------------------------------
\* Bounds of the model
\* ------------------------------------------------------------------------
\* context methods per attempt: in any closure, and in the closures of
\* the specifications that use several methods, paths and options
MaxCalls == 3
MaxOps == 2
MaxFieldOps == 1
MaxRetries == 2
MaxVal == 3
MaxHandlers == 2
MaxFieldCalls == 3

\* ------------------------------------------------------------------------
\* Universe
\* ------------------------------------------------------------------------
Ctxs == {1, 2, 3}
Paths == {"p1", "p2"}
Fields == {"f1", "f2"}
\* the value of a field that is not set (undefined)
Undef == -1

\* FIELDS = { f1: S.int.optional(), f2: S.int.default(0) }
Optional(f) == f = "f1"
Default(f) == IF f = "f2" THEN 0 ELSE Undef

\* ------------------------------------------------------------------------
\* Field runtime
\* ------------------------------------------------------------------------
NoField ==
  [cached |-> FALSE, value |-> Undef, initial |-> Undef, base |-> Undef,
   read |-> FALSE, written |-> FALSE, useDefault |-> FALSE, diff |-> Undef,
   mustUseSet |-> FALSE, isForUpdate |-> FALSE]

\* validateValue: an omitted value is valid only for an optional field
validateValue(f, v) == v # Undef \/ Optional(f)

UseDefault(f, valIsFromDB, valSpecified) ==
  IF valSpecified THEN FALSE
  ELSE IF Default(f) = Undef THEN FALSE
  ELSE IF valIsFromDB /\ Optional(f) THEN FALSE
  ELSE TRUE

\* __Field constructor followed by the NumberField constructor
NewField(f, val, valIsFromDB, valSpecified, isForUpdate) ==
  LET ud == UseDefault(f, valIsFromDB, valSpecified)
      v == IF ud THEN Default(f) ELSE val
      init == IF valIsFromDB THEN val ELSE Undef
  IN [cached |-> TRUE, value |-> v, initial |-> init,
      base |-> IF init # Undef THEN init ELSE v,
      read |-> FALSE, written |-> FALSE, useDefault |-> ud, diff |-> Undef,
      mustUseSet |-> FALSE, isForUpdate |-> valSpecified /\ isForUpdate]

\* whether the constructor's validation passes
NewFieldOk(f, val, valIsFromDB, valSpecified, isForUpdate) ==
  \/ UseDefault(f, valIsFromDB, valSpecified)
  \/ ~(valSpecified \/ ~isForUpdate)
  \/ validateValue(f, val)

FieldGet(fr) == [fr EXCEPT !.read = IF fr.written THEN fr.read ELSE TRUE]

\* NumberField.set; callers check FieldSetOk first (a failing set restores)
FieldSetOk(f, v) == validateValue(f, v)
FieldSet(fr, v) ==
  [fr EXCEPT !.value = v, !.written = TRUE, !.diff = Undef,
             !.mustUseSet = TRUE]

\* NumberField.incrementBy
IncrNewDiff(fr, d) == IF fr.diff = Undef THEN d ELSE fr.diff + d
IncrUsesSet(fr) == fr.read \/ fr.mustUseSet
IncrOk(fr, d) ==
  IF IncrUsesSet(fr) THEN fr.value # Undef ELSE fr.base # Undef
IncrementBy(fr, d) ==
  IF IncrUsesSet(fr)
  THEN FieldSet(fr, fr.value + IncrNewDiff(fr, d))
  ELSE [fr EXCEPT !.value = fr.base + IncrNewDiff(fr, d), !.written = TRUE,
                  !.diff = IncrNewDiff(fr, d)]

Mutated(fr) == fr.value # fr.initial

\* __mayHaveMutated
mayHaveMutatedIfRead(fr) ==
  fr.read \/ (fr.initial = Undef /\ fr.value # Undef)
mayHaveMutated(fr) ==
  (fr.read \/ fr.written) \/ (fr.initial = Undef /\ fr.value # Undef)

\* mutated of each variant; equality of values stands for deep equality
FieldKinds == {"Number", "Boolean", "String", "Object", "Array"}
MutatedOf(kind, fr) ==
  IF kind \in {"Number", "Boolean"} THEN Mutated(fr)
  ELSE mayHaveMutated(fr) /\ Mutated(fr)

hasChangesToCommit(fr, expectWrites) ==
  IF fr.isForUpdate THEN TRUE
  ELSE Mutated(fr) /\ ~(~expectWrites /\ fr.useDefault /\ ~fr.written)

canUpdateWithIncrement(fr) ==
  fr.diff # Undef /\ fr.initial # Undef /\ ~fr.read

\* A call of set or incrementBy as the code runs it, whether it returns or
\* raises: fr is the field afterwards
\* [this.__value, this.__written] = prev
RestoredValueOnly(prev, cur) == [cur EXCEPT !.value = prev.value]
Restored(prev, cur) ==
  [cur EXCEPT !.value = prev.value, !.written = prev.written]

\* __Field.set
SuperSet(f, fr, v) ==
  LET cur == [fr EXCEPT !.value = v, !.written = TRUE]
  IN IF validateValue(f, v)
     THEN [fr |-> cur, raised |-> FALSE]
     ELSE [fr |-> Restored(fr, cur), raised |-> TRUE]

\* NumberField.set
NumberSet(f, fr, v) ==
  LET r == SuperSet(f, fr, v)
  IN IF r.raised THEN r
     ELSE [fr |-> [r.fr EXCEPT !.diff = Undef, !.mustUseSet = TRUE],
           raised |-> FALSE]

\* __sumIfValid adds to __base or to __value
SumBaseInitial(fr, fromBase) == IF fromBase THEN fr.initial ELSE fr.value
SumBase(fr, fromBase) == IF fromBase THEN fr.base ELSE fr.value

\* NumberField.incrementBy
NumberIncrementBy(f, fr, d) ==
  LET newDiff == IF fr.diff = Undef THEN d ELSE fr.diff + d
      usesSet == fr.read \/ fr.mustUseSet
      base == SumBase(fr, ~usesSet)
  IN IF base = Undef THEN [fr |-> fr, raised |-> TRUE]
     ELSE IF usesSet THEN NumberSet(f, fr, base + newDiff)
     ELSE LET r == SuperSet(f, fr, base + newDiff)
          IN IF r.raised THEN r
             ELSE [fr |-> [r.fr EXCEPT !.diff = newDiff], raised |-> FALSE]

\* the calls a closure makes on a field
Diffs == {1, 2}
FieldCalls ==
  {[op |-> "get", arg |-> 0]}
    \cup {[op |-> "set", arg |-> v] : v \in {Undef, 1}}
    \cup {[op |-> "incrementBy", arg |-> d] : d \in Diffs}

Called(f, fr, call) ==
  CASE call.op = "get" -> [fr |-> FieldGet(fr), raised |-> FALSE]
    [] call.op = "set" -> NumberSet(f, fr, call.arg)
    [] OTHER -> NumberIncrementBy(f, fr, call.arg)

\* Values handed to the driver: a plain value, the delete sentinel, the
\* increment sentinel, or nothing (the field is left out of the data)
WNone == [op |-> "none", v |-> 0]
WSet(v) == [op |-> "set", v |-> v]
WDel == [op |-> "del", v |-> 0]
WIncValue(fr) == [op |-> "inc", v |-> fr.value]
WInc(fr) == [op |-> "inc", v |-> fr.diff]

valueForFirestoreWrite(fr) ==
  IF canUpdateWithIncrement(fr) THEN WInc(fr)
  ELSE IF fr.value = Undef
       THEN (IF fr.initial # Undef \/ fr.isForUpdate THEN WDel ELSE WNone)
       ELSE WSet(fr.value)

\* the validate() call inside __valueForFirestoreWrite
valueForFirestoreWriteOk(f, fr) ==
  \/ canUpdateWithIncrement(fr)
  \/ (fr.value = Undef /\ (fr.initial # Undef \/ fr.isForUpdate))
  \/ validateValue(f, fr.value)

\* ------------------------------------------------------------------------
\* Errors
\* ------------------------------------------------------------------------
\* kind: the error class; retryable: the explicit marker; code, details and
\* elt: the driver's status code, detail string and whether the message has a
\* parseable "Element {..}" path; at: the attempt in which the underlying
\* error was raised; original: the kinds of the errors this one wraps
Err(kind, retryable, code, details, elt, at) ==
  [kind |-> kind, retryable |-> retryable, code |-> code,
   details |-> details, elt |-> elt, at |-> at, original |-> << >>]
NoErr == Err("none", FALSE, 0, "", FALSE, 0)

\* errors of src/src/errors.js; GenericModelError sets retryable = false
LibErr(kind, at) == Err(kind, FALSE, 0, "", FALSE, at)

\* a wrapper (TransactionFailedError and its subclass) keeps the original
WrapErr(kind, retryable, e) ==
  [kind |-> kind, retryable |-> retryable, code |-> 0, details |-> "",
   elt |-> FALSE, at |-> e.at, original |-> <<e.kind>> \o e.original]

TransactionFailedErrorUnwrapped(e) == e
TransactionFailedError(e) == WrapErr("TransactionFailed", FALSE, e)
TransactionLockTimeoutError(e) == WrapErr("TransactionLockTimeout", TRUE, e)

\* errors the driver reports
DriverAlreadyExists(at) == Err("DriverError", FALSE, 6, "other", TRUE, at)
DriverNotFound(at) == Err("DriverError", FALSE, 5, "other", FALSE, at)
DriverLock(at) == Err("DriverError", FALSE, 10, "lock", FALSE, at)

\* errors an application closure may throw
AppErrors(at) ==
  { Err("Error", FALSE, 0, "", FALSE, at),
    Err("Error", TRUE, 0, "", FALSE, at),
    Err("Error", FALSE, 10, "lock", FALSE, at),
    Err("Error", FALSE, 10, "other", FALSE, at),
    Err("Error", FALSE, 6, "other", TRUE, at),
    Err("Error", FALSE, 6, "other", FALSE, at),
    Err("Error", FALSE, 66, "other", TRUE, at) }

IsLockSignature(e) == e.code = 10 /\ e.details = "lock"

\* parseFirestoreError(originalErr) ?? originalErr
parseFirestoreError(e) ==
  IF e.code # 0 /\ e.details # ""
  THEN IF IsLockSignature(e) THEN TransactionLockTimeoutError(e)
       ELSE IF e.elt /\ e.code = 6 THEN LibErr("ModelAlreadyExists", e.at)
       ELSE e
  ELSE e

isRetryableAlways(e) == TRUE
isRetryable(e) == e.retryable

\* ------------------------------------------------------------------------
\* The document store and its transactions (the driver)
\* ------------------------------------------------------------------------
NoData == [f \in Fields |-> Undef]
NoDoc == [exists |-> FALSE, d |-> NoData]
Doc(d) == [exists |-> TRUE, d |-> d]
NoWrite == [f \in Fields |-> WNone]

Write(kind, path, data) == [kind |-> kind, path |-> path, data |-> data]

\* the effect of one write on one document
WriteFails(doc, w) ==
  \/ w.kind = "create" /\ doc.exists
  \/ w.kind = "update" /\ ~doc.exists

WriteError(w, at) ==
  IF w.kind = "create" THEN DriverAlreadyExists(at) ELSE DriverNotFound(at)

ApplyWrite(doc, w) ==
  CASE w.kind = "delete" -> NoDoc
    [] w.kind \in {"create", "set"} ->
         Doc([f \in Fields |->
               IF w.data[f].op \in {"set", "inc"} THEN w.data[f].v ELSE Undef])
    [] OTHER ->
         Doc([f \in Fields |->
               CASE w.data[f].op = "set" -> w.data[f].v
                 [] w.data[f].op = "del" -> Undef
                 [] w.data[f].op = "inc" ->
                      (IF doc.d[f] = Undef THEN 0 ELSE doc.d[f]) + w.data[f].v
                 [] OTHER -> doc.d[f]])

\* a batch of writes applied in order to a copy of the store: the result has
\* ok = FALSE and the store untouched as soon as one write fails
RECURSIVE ApplyAll(_, _, _)
ApplyAll(ws, st, at) ==
  IF ws = << >> THEN [ok |-> TRUE, st |-> st, err |-> NoErr]
  ELSE LET w == Head(ws)
       IN IF WriteFails(st[w.path], w)
          THEN [ok |-> FALSE, st |-> st, err |-> WriteError(w, at)]
          ELSE ApplyAll(Tail(ws),
                        [st EXCEPT ![w.path] = ApplyWrite(st[w.path], w)], at)

NoTx ==
  [snap |-> [p \in Paths |-> NoDoc], reads |-> {}, writes |-> << >>,
   ro |-> FALSE]

\* ------------------------------------------------------------------------
\* State
\* ------------------------------------------------------------------------
VARIABLES
  store,        \* the documents in the database: path -> document
  hist,         \* every state the database has been in
  options,      \* per context: readOnly, consistentReads, cacheModels, retries
  isUsingTx,    \* per context: set once by the constructor
  pc,           \* "idle" | "begin" | "closure" | "resolved" | "rejected"
  tryCnt,       \* the loop counter of __run
  trackedMap,   \* __trackedModelsMap: path -> index into the list (0: none)
  trackedList,  \* __trackedModelsList
  dbCtx,        \* __dbCtx: "db" (the client) or "tx" (the transaction)
  tx,           \* the driver's transaction: snapshot, read set, queued writes
  handlers,     \* the event emitter's registrations
  eventIndex,   \* __eventIndex
  runs,         \* how many times the closure has been started
  nops,         \* context operations of the current attempt
  fops,         \* field accesses of the current attempt
  made,         \* model instances constructed in the current attempt
  gets,         \* what each get of the current attempt returned
  lastThrown,   \* the error the last failed attempt ended with, as thrown
  lastErr,      \* the same error as classified by __run
  regs,         \* POST_COMMIT handlers registered by the current attempt
  saved,        \* writes issued by __saveChangedModels in this attempt
  roWrite,      \* create or createOrOverwrite returned under readOnly
  outcome,      \* how the run ended
  emitted,      \* handler invocations, in order
  events,       \* the events the run emitted, each with its argument
  issued,       \* writes handed to the driver by the current attempt
  obs,          \* documents the current attempt read from the driver
  touched,      \* whether the closure used a model or a write method
  hook,         \* the finalize hook of the model class
  calls,        \* the calls the closure made on fields inside try/catch
  codec,        \* a key-component map, its encoded identifier and the map
                \* decoded from it
  keyList,      \* a UniqueKeyList: the array and __keyHashes
  given,        \* the keys handed to the list's constructor and to push
  inflight,     \* per context: the gets whose driver read has not resolved
  backoff       \* per context: initialBackoff, maxBackoff, millisBackOff of
                \* __run and the delay last slept, in tenths of a millisecond

ctlVars == <<pc, tryCnt, dbCtx, handlers, lastThrown, lastErr, outcome,
             emitted, events, backoff>>
restVars == <<store, hist, trackedMap, trackedList, tx, made, issued, obs,
              touched, eventIndex, regs, saved, roWrite>>
dataVars == <<restVars, gets>>
\* what no atomic context operation changes: the values of the library that
\* belong to no context, and the gets whose driver read is pending
libVars == <<codec, keyList, given, inflight>>
vars == <<store, hist, options, isUsingTx, pc, tryCnt, trackedMap,
          trackedList, dbCtx, tx, handlers, eventIndex, runs, nops, fops,
          made, gets, lastThrown, lastErr, regs, saved, roWrite, outcome,
          emitted, events, issued, obs, touched, hook, calls, backoff,
          codec, keyList, given, inflight>>

\* ------------------------------------------------------------------------
\* Context construction
\* ------------------------------------------------------------------------
\* the constructor rejects readOnly = false with consistentReads = false
LegalOptions ==
  { o \in [readOnly : BOOLEAN, consistentReads : BOOLEAN,
           cacheModels : BOOLEAN, retries : 0 .. MaxRetries] :
      o.readOnly \/ o.consistentReads }

IsUsingTx(o) == ~o.readOnly \/ o.consistentReads

NoRet == [kind |-> "none", id |-> 0]
Raised == [kind |-> "raise", id |-> 0]
NoOutcome == [status |-> "none", err |-> NoErr, ret |-> 0]
\* an observation: the document read, and how many states the database had
\* been in at that time
NotRead == [doc |-> NoDoc, ver |-> 0]

\* let millisBackOff = this.options.initialBackoff; nothing slept yet
Backoff(initial, max) ==
  [initial |-> initial, max |-> max, millis |-> initial, slept |-> 0]

\* finalize hooks of a model class: the empty hook of Model, a hook that
\* assigns a field (async finalize () { this.f1 = HookVal }), and one that
\* assigns it after awaiting something
\* (async finalize () { await x; this.f1 = HookVal })
HookVal == 2
NoHook == [when |-> "never", f |-> "f1", v |-> 0]
Hooks == {NoHook} \cup { [when |-> w, f |-> "f1", v |-> HookVal] :
                           w \in {"sync", "late"} }

InitContext(active, opts, stores, hooks, backoffs) ==
  /\ store \in stores
  /\ hook \in hooks
  /\ calls = [c \in Ctxs |-> << >>]
  /\ inflight = [c \in Ctxs |-> << >>]
  /\ backoff \in [Ctxs -> backoffs]
  /\ \A c \in Ctxs \ active : backoff[c] = CHOOSE b \in backoffs : TRUE
  /\ hist = {store}
  /\ options \in [Ctxs -> opts]
  /\ isUsingTx = [c \in Ctxs |-> IsUsingTx(options[c])]
  /\ pc = [c \in Ctxs |-> IF c \in active THEN "begin" ELSE "idle"]
  /\ \A c \in Ctxs \ active : options[c] = CHOOSE o \in opts : TRUE
  /\ tryCnt = [c \in Ctxs |-> 0]
  /\ trackedMap = [c \in Ctxs |-> [p \in Paths |-> 0]]
  /\ trackedList = [c \in Ctxs |-> << >>]
  /\ dbCtx = [c \in Ctxs |-> "db"]
  /\ tx = [c \in Ctxs |-> NoTx]
  /\ handlers = [c \in Ctxs |-> << >>]
  /\ eventIndex = [c \in Ctxs |-> 0]
  /\ runs = [c \in Ctxs |-> 0]
  /\ nops = [c \in Ctxs |-> 0]
  /\ fops = [c \in Ctxs |-> 0]
  /\ made = [c \in Ctxs |-> 0]
  /\ gets = [c \in Ctxs |-> << >>]
  /\ lastThrown = [c \in Ctxs |-> NoErr]
  /\ lastErr = [c \in Ctxs |-> NoErr]
  /\ regs = [c \in Ctxs |-> 0]
  /\ saved = [c \in Ctxs |-> << >>]
  /\ roWrite = [c \in Ctxs |-> FALSE]
  /\ outcome = [c \in Ctxs |-> NoOutcome]
  /\ emitted = [c \in Ctxs |-> << >>]
  /\ events = [c \in Ctxs |-> << >>]
  /\ issued = [c \in Ctxs |-> << >>]
  /\ obs = [c \in Ctxs |-> [p \in Paths |-> NotRead]]
  /\ touched = [c \in Ctxs |-> FALSE]

\* no key is being encoded and no key list is in use
NoCodec == [cls |-> "none", k |-> << >>, stage |-> "none", id |-> << >>,
            out |-> << >>]
NoKeyList == [items |-> << >>, hashes |-> {}]
InitFull(active, opts, stores, hooks, backoffs) ==
  /\ InitContext(active, opts, stores, hooks, backoffs)
  /\ codec = NoCodec
  /\ keyList = NoKeyList
  /\ given = << >>

\* the default delays
InitHooked(active, opts, stores, hooks) ==
  InitFull(active, opts, stores, hooks, {Backoff(1, 10000)})

\* the model class keeps the empty finalize of Model
InitWith(active, opts, stores) == InitHooked(active, opts, stores, {NoHook})

\* ------------------------------------------------------------------------
\* The event emitter: single-fire handlers, delivered in registration order
\* ------------------------------------------------------------------------
POST_COMMIT == "postCommit"
TX_FAILED == "txFailed"

RECURSIVE SelectEvent(_, _)
SelectEvent(hs, ev) ==
  IF hs = << >> THEN << >>
  ELSE IF Head(hs).event = ev THEN <<Head(hs)>> \o SelectEvent(Tail(hs), ev)
       ELSE SelectEvent(Tail(hs), ev)

RECURSIVE DropEvent(_, _)
DropEvent(hs, ev) ==
  IF hs = << >> THEN << >>
  ELSE IF Head(hs).event = ev THEN DropEvent(Tail(hs), ev)
       ELSE <<Head(hs)>> \o DropEvent(Tail(hs), ev)

\* the handlers an emit invokes, one after the other: those registered for
\* the event, up to and including the first that raises
RECURSIVE Invoked(_)
Invoked(hs) ==
  IF hs = << >> THEN << >>
  ELSE IF Head(hs).raises # NoErr THEN <<Head(hs)>>
       ELSE <<Head(hs)>> \o Invoked(Tail(hs))

\* the emitter of context c
Emitter(c) ==
  [handlers |-> handlers[c], emitted |-> emitted[c], events |-> events[c],
   err |-> NoErr]

\* emit(event, arg) on emitter em: the handlers registered for the event are
\* unregistered and invoked in order; err is what a handler raised
Emit(em, ev, arg) ==
  LET inv == Invoked(SelectEvent(em.handlers, ev))
  IN [handlers |-> DropEvent(em.handlers, ev),
      emitted |-> em.emitted \o inv,
      events |-> Append(em.events, [event |-> ev, arg |-> arg]),
      err |-> IF inv # << >> THEN inv[Len(inv)].raises ELSE NoErr]

\* the emitter of c is left as em
SetEmitter(c, em) ==
  /\ handlers' = [handlers EXCEPT ![c] = em.handlers]
  /\ emitted' = [emitted EXCEPT ![c] = em.emitted]
  /\ events' = [events EXCEPT ![c] = em.events]

\* ------------------------------------------------------------------------
\* __run: the retry loop around one attempt
\* ------------------------------------------------------------------------
\* the run rejects: TX_FAILED is emitted with e and e is thrown, unless a
\* handler of TX_FAILED raises, whose error is then what leaves __run
Reject(c, em, e) ==
  LET r == Emit(em, TX_FAILED, e)
  IN /\ SetEmitter(c, r)
     /\ outcome' = [outcome EXCEPT ![c] =
          [status |-> "rejected", err |-> IF r.err # NoErr THEN r.err ELSE e,
           ret |-> 0]]
     /\ pc' = [pc EXCEPT ![c] = "rejected"]
     /\ tryCnt' = tryCnt
     /\ backoff' = backoff

\* Math.floor(Math.random() * millisBackOff * 0.2), Math.random() being any
\* number from 0 up to but not including 1
Jitters(millis) == { k \in 0 .. millis \div 5 : 5 * k < millis }

\* await sleep(millisBackOff + offset), the offset being k - millisBackOff *
\* 0.1, and millisBackOff = Math.min(maxBackoff, millisBackOff * 2)
MinOf(a, b) == IF a < b THEN a ELSE b
Sleep(b, k) ==
  [b EXCEPT !.slept = 10 * b.millis + 10 * k - b.millis,
            !.millis = MinOf(b.max, b.millis * 2)]

\* the test that ends the loop of __run after a retryable failure
RetriesExhaustedLate(c) == tryCnt[c] > options[c].retries
RetriesExhausted(c) == tryCnt[c] >= options[c].retries

\* the catch block of __run and what follows it, when the try block raised
\* originalErr and left the emitter as em
Catch(c, em, originalErr) ==
  LET err == parseFirestoreError(originalErr)
  IN /\ lastThrown' = [lastThrown EXCEPT ![c] = originalErr]
     /\ lastErr' = [lastErr EXCEPT ![c] = err]
     /\ dbCtx' = [dbCtx EXCEPT ![c] = "db"]
     /\ IF ~isRetryable(err) THEN Reject(c, em, err)
        ELSE IF RetriesExhausted(c)
             THEN Reject(c, em, TransactionFailedError(err))
             ELSE /\ pc' = [pc EXCEPT ![c] = "begin"]
                  /\ tryCnt' = [tryCnt EXCEPT ![c] = @ + 1]
                  /\ SetEmitter(c, em)
                  /\ outcome' = outcome
                  /\ \E k \in Jitters(backoff[c].millis) :
                       backoff' = [backoff EXCEPT ![c] = Sleep(@, k)]

\* an attempt failed with originalErr (the transaction callback's finally
\* has restored __dbCtx)
AttemptFailed(c, originalErr) == Catch(c, Emitter(c), originalErr)

\* the attempt succeeded: POST_COMMIT is emitted, still inside the try
\* block, and the run resolves unless a handler raises
AttemptSucceeded(c) ==
  LET r == Emit(Emitter(c), POST_COMMIT, NoErr)
  IN IF r.err # NoErr THEN Catch(c, r, r.err)
     ELSE /\ SetEmitter(c, r)
          /\ outcome' = [outcome EXCEPT ![c] =
               [status |-> "resolved", err |-> NoErr, ret |-> runs[c]]]
          /\ pc' = [pc EXCEPT ![c] = "resolved"]
          /\ dbCtx' = [dbCtx EXCEPT ![c] = "db"]
          /\ UNCHANGED <<tryCnt, lastThrown, lastErr, backoff>>

\* __reset
Reset(c) ==
  /\ handlers' = [handlers EXCEPT ![c] = << >>]
  /\ trackedList' = [trackedList EXCEPT ![c] = << >>]
  /\ trackedMap' = [trackedMap EXCEPT ![c] = [p \in Paths |-> 0]]

\* which handle the attempt's reads and writes go through
BindDbCtxWrong(c) == "db"
BindDbCtx(c) == "tx"

\* __tryToRun up to the call of the closure: with a transaction the driver
\* opens it, the context is reset and __dbCtx bound to it; without one the
\* closure is called at once
BeginAttempt(c) ==
  /\ pc[c] = "begin"
  /\ pc' = [pc EXCEPT ![c] = "closure"]
  /\ runs' = [runs EXCEPT ![c] = @ + 1]
  /\ nops' = [nops EXCEPT ![c] = 0]
  /\ fops' = [fops EXCEPT ![c] = 0]
  /\ made' = [made EXCEPT ![c] = 0]
  /\ gets' = [gets EXCEPT ![c] = << >>]
  /\ issued' = [issued EXCEPT ![c] = << >>]
  /\ saved' = [saved EXCEPT ![c] = << >>]
  /\ regs' = [regs EXCEPT ![c] = 0]
  /\ roWrite' = [roWrite EXCEPT ![c] = FALSE]
  /\ obs' = [obs EXCEPT ![c] = [p \in Paths |-> NotRead]]
  /\ touched' = [touched EXCEPT ![c] = FALSE]
  /\ IF isUsingTx[c]
     THEN /\ Reset(c)
          /\ dbCtx' = [dbCtx EXCEPT ![c] = BindDbCtx(c)]
          /\ tx' = [tx EXCEPT ![c] = [snap |-> store, reads |-> {},
                                      writes |-> << >>,
                                      ro |-> options[c].readOnly]]
     ELSE UNCHANGED <<handlers, trackedList, trackedMap, dbCtx, tx>>
  /\ UNCHANGED <<store, hist, options, isUsingTx, hook, libVars, calls, backoff, tryCnt,
                 eventIndex,
                 lastThrown, lastErr, outcome, emitted, events>>

\* the closure throws an error of its own
Throw(c, e) ==
  /\ pc[c] = "closure"
  /\ AttemptFailed(c, e)
  /\ UNCHANGED <<dataVars, options, isUsingTx, hook, libVars, calls, runs, nops, fops>>

\* what a registered handler does when invoked: it returns, or raises an
\* error with or without the retryable marker
HandlerRaises(at) ==
  { NoErr, Err("HandlerError", FALSE, 0, "", FALSE, at),
    Err("HandlerError", TRUE, 0, "", FALSE, at) }

\* addEventHandler(event, handler): the generated name counts registrations
AddEventHandler(c, ev, raises) ==
  /\ pc[c] = "closure"
  /\ nops[c] < MaxCalls
  /\ Len(handlers[c]) < MaxHandlers
  /\ ev \in {POST_COMMIT, TX_FAILED}
  /\ raises \in HandlerRaises(runs[c])
  /\ eventIndex' = [eventIndex EXCEPT ![c] = @ + 1]
  /\ handlers' = [handlers EXCEPT ![c] =
       Append(@, [event |-> ev, name |-> eventIndex[c] + 1, at |-> runs[c],
                  raises |-> raises])]
  /\ regs' = [regs EXCEPT ![c] = IF ev = POST_COMMIT THEN @ + 1 ELSE @]
  /\ nops' = [nops EXCEPT ![c] = @ + 1]
  /\ UNCHANGED <<store, hist, options, isUsingTx, hook, libVars, calls, backoff, pc, tryCnt,
                 trackedMap,
                 trackedList, dbCtx, tx, runs, fops, made, gets, lastThrown,
                 lastErr, saved, roWrite, outcome, emitted, events, issued,
                 obs, touched>>

\* ------------------------------------------------------------------------
\* Model runtime
\* ------------------------------------------------------------------------
\* new Cls(isNew, vals, isForUpdateAndMayBePartial, isSet): the fields of a
\* new model, and the specified fields of a partial one, are built at once;
\* the others on first access (getCachedField)
EagerFieldAlways(isNew, isPartial, vals, f) == TRUE
EagerField(isNew, isPartial, vals, f) ==
  isNew \/ (isPartial /\ vals[f] # Undef)

NewModel(id, p, isNew, vals, isPartial, isSet) ==
  [id |-> id, path |-> p, isNew |-> isNew, isSet |-> isSet,
   isPartial |-> isPartial, vals |-> vals,
   flds |-> [f \in Fields |->
              IF EagerField(isNew, isPartial, vals, f)
              THEN NewField(f, vals[f], ~isNew /\ ~isPartial, vals[f] # Undef,
                            isPartial)
              ELSE NoField]]

NewModelOk(isNew, vals, isPartial) ==
  \A f \in Fields :
    EagerField(isNew, isPartial, vals, f) =>
      NewFieldOk(f, vals[f], ~isNew /\ ~isPartial, vals[f] # Undef, isPartial)

NoModel == NewModel(0, "p1", FALSE, NoData, FALSE, FALSE)

\* getCachedField
CachedFieldOk(m, f) ==
  \/ m.flds[f].cached
  \/ NewFieldOk(f, m.vals[f], ~m.isNew /\ ~m.isPartial, m.vals[f] # Undef,
                m.isPartial)
CachedField(m, f) ==
  IF m.flds[f].cached THEN m.flds[f]
  ELSE NewField(f, m.vals[f], ~m.isNew /\ ~m.isPartial, m.vals[f] # Undef,
                m.isPartial)

\* model.f = v inside finalize: an error of the setter rejects the promise
\* finalize returns and leaves the model as it was
Assign(m, f, v) ==
  IF CachedFieldOk(m, f) /\ FieldSetOk(f, v)
  THEN [m EXCEPT !.flds[f] = FieldSet(CachedField(m, f), v)]
  ELSE m

\* this.finalize() as called by __writeHelper, which does not wait for the
\* promise: the model when the call returns, the hook having run up to its
\* first await
finalize(m) ==
  IF hook.when = "sync" THEN Assign(m, hook.f, hook.v) ELSE m

\* the model once the promise of finalize has settled
finalizeSettled(m) ==
  IF hook.when = "never" THEN m ELSE Assign(m, hook.f, hook.v)

\* __isMutated(expectWrites): only fields built so far are looked at
isMutated(m, expectWrites) ==
  \/ m.isNew
  \/ \E f \in Fields :
       m.flds[f].cached /\ hasChangesToCommit(m.flds[f], expectWrites)

\* __writeHelper: the data collected for the write
InWriteData(m, f) ==
  m.flds[f].cached /\ (hasChangesToCommit(m.flds[f], TRUE) \/ m.isNew)

WriteData(m) ==
  [f \in Fields |->
    IF InWriteData(m, f) THEN valueForFirestoreWrite(m.flds[f]) ELSE WNone]

WriteDataOk(m) ==
  \A f \in Fields :
    InWriteData(m, f) => valueForFirestoreWriteOk(f, m.flds[f])

WriteKindCreateOnly(m) ==
  IF m.isNew THEN "create" ELSE "update"
WriteKind(m) ==
  IF m.isNew THEN (IF m.isSet THEN "set" ELSE "create") ELSE "update"

\* __writeHelper as a whole: the write, or the error it raises
WriteHelperErr(m, at) ==
  LET fm == finalize(m)
  IN IF ~WriteDataOk(fm) THEN LibErr("InvalidField", at)
     ELSE IF ~fm.isNew /\ WriteData(fm) = NoWrite
     THEN LibErr("GenericModel", at)
     ELSE NoErr
WriteHelper(m) ==
  LET fm == finalize(m)
  IN Write(WriteKind(fm), fm.path, WriteData(fm))

\* ------------------------------------------------------------------------
\* Tracked slots
\* ------------------------------------------------------------------------
\* a slot holds a model (and which context method tracked it), or the
\* sentinel of a missing document, or the marker of a deletion
LiveSlot(m, by) == [kind |-> "live", m |-> m, by |-> by]
AbsentSlotAsDeleted == [kind |-> "deleted", m |-> NoModel, by |-> "get"]
AbsentSlot == [kind |-> "absent", m |-> NoModel, by |-> "get"]
DeletedSlot == [kind |-> "deleted", m |-> NoModel, by |-> "delete"]

SlotOf(c, p) == trackedList[c][trackedMap[c][p]]
IsTracked(c, p) == trackedMap[c][p] # 0

\* __watchForChangesToSave: raises when the path holds a live model;
\* otherwise the slot is filled in place, or a new slot is appended
WatchRaisesTracked(c, p) == IsTracked(c, p)
WatchAppends(c, p, slot) ==
  /\ trackedList' = [trackedList EXCEPT ![c] = Append(@, slot)]
  /\ trackedMap' = [trackedMap EXCEPT ![c][p] = Len(trackedList[c]) + 1]
WatchNothing(c, p, slot) ==
  /\ trackedList' = trackedList
  /\ trackedMap' = trackedMap
WatchRaises(c, p) == IsTracked(c, p) /\ SlotOf(c, p).kind = "live"
Watch(c, p, slot) ==
  IF IsTracked(c, p)
  THEN /\ trackedList' = [trackedList EXCEPT ![c][trackedMap[c][p]] = slot]
       /\ trackedMap' = trackedMap
  ELSE /\ trackedList' = [trackedList EXCEPT ![c] = Append(@, slot)]
       /\ trackedMap' = [trackedMap EXCEPT ![c][p] = Len(trackedList[c]) + 1]

RetOf(slot) ==
  CASE slot.kind = "live" -> [kind |-> "model", id |-> slot.m.id]
    [] slot.kind = "absent" -> [kind |-> "undefined", id |-> 0]
    [] OTHER -> [kind |-> "null", id |-> 0]

\* ------------------------------------------------------------------------
\* The driver handle the context holds (__dbCtx)
\* ------------------------------------------------------------------------
\* a read: from the transaction's snapshot, or from the database as it is
DriverReadLatest(c, p) == store[p]
DriverRead(c, p) == IF dbCtx[c] = "tx" THEN tx[c].snap[p] ELSE store[p]

\* a transaction refuses a read once a write has been queued
DriverReadFails(c) == dbCtx[c] = "tx" /\ tx[c].writes # << >>
ReadAfterWrite(at) == Err("Error", FALSE, 0, "", FALSE, at)

\* a write: queued in the transaction, or applied to the database at once
\* (where a failing precondition is reported at once)
DriverWriteErr(c, w) ==
  IF dbCtx[c] = "db" /\ WriteFails(store[w.path], w)
  THEN WriteError(w, runs[c]) ELSE NoErr

DriverWrite(c, w) ==
  /\ issued' = [issued EXCEPT ![c] = Append(@, w)]
  /\ IF dbCtx[c] = "tx"
     THEN /\ tx' = [tx EXCEPT ![c].writes = Append(@, w)]
          /\ UNCHANGED <<store, hist>>
     ELSE /\ store' = [store EXCEPT ![w.path] = ApplyWrite(@, w)]
          /\ hist' = hist \cup {store'}
          /\ tx' = tx

\* ------------------------------------------------------------------------
\* Context operations, called by the closure
\* ------------------------------------------------------------------------
\* values the closure passes to create, createOrOverwrite and get(Data)
CreateVals == { [f1 |-> 1, f2 |-> Undef], [f1 |-> Undef, f2 |-> 2] }
\* create and get(Data) are given the first, createOrOverwrite the second
NewVals == [f1 |-> 1, f2 |-> Undef]
OverwriteVals == [f1 |-> Undef, f2 |-> 2]
\* values the closure passes to updateWithoutRead (the first changes nothing)
UpdateVals == { NoData, [f1 |-> 1, f2 |-> Undef] }
\* values the closure assigns to a field
SetVals == {Undef, 1}

InClosure(c) == pc[c] = "closure" /\ nops[c] < MaxCalls

\* an operation raises and the closure lets the error propagate
Raise(c, e) ==
  /\ AttemptFailed(c, e)
  /\ UNCHANGED <<dataVars, options, isUsingTx, hook, libVars, calls, runs, nops, fops>>

\* an operation returns normally
Done(c) ==
  /\ nops' = [nops EXCEPT ![c] = @ + 1]
  /\ UNCHANGED <<ctlVars, isUsingTx, hook, libVars, calls, runs, fops>>

\* a field access returns normally
FieldDone(c) ==
  /\ fops' = [fops EXCEPT ![c] = @ + 1]
  /\ UNCHANGED <<ctlVars, isUsingTx, hook, libVars, calls, runs, nops>>

\* get(key, params) and get(data, {createIfMissing: true}) for one document
GetHitsCacheNever(c, p, cim) == FALSE
GetHitsCacheAlways(c, p, cim) == IsTracked(c, p)
GetHitsCache(c, p, cim) ==
  IsTracked(c, p) /\ ~(SlotOf(c, p).kind = "absent" /\ cim)

GetEntry(c, p, cim, ret) ==
  [path |-> p, cache |-> options[c].cacheModels, cim |-> cim,
   kind |-> ret.kind, id |-> ret.id,
   prev |-> IF IsTracked(c, p) THEN RetOf(SlotOf(c, p)) ELSE NoRet]

\* the get returns ret
GetReturns(c, p, cim, ret) ==
  /\ gets' = [gets EXCEPT ![c] = Append(@, GetEntry(c, p, cim, ret))]
  /\ Done(c)

\* the get raises e
GetRaises(c, p, cim, e) ==
  /\ gets' = [gets EXCEPT ![c] = Append(@, GetEntry(c, p, cim, Raised))]
  /\ AttemptFailed(c, e)
  /\ UNCHANGED <<restVars, options, isUsingTx, hook, libVars, calls, runs, nops, fops>>

\* the driver read of a get
Observe(c, p, doc) ==
  /\ obs' = [obs EXCEPT ![c][p] = [doc |-> doc, ver |-> Cardinality(hist)]]
  /\ tx' = [tx EXCEPT ![c].reads = IF dbCtx[c] = "tx" THEN @ \cup {p} ELSE @]

Get(c, p, cim, vals) ==
  /\ InClosure(c)
  /\ vals \in CreateVals
  /\ IF IsTracked(c, p) /\ ~options[c].cacheModels
     THEN GetRaises(c, p, cim, LibErr("ModelTrackedTwice", runs[c]))
     ELSE IF GetHitsCache(c, p, cim)
     THEN /\ GetReturns(c, p, cim, RetOf(SlotOf(c, p)))
          /\ UNCHANGED <<restVars, options>>
     ELSE IF DriverReadFails(c)
     THEN GetRaises(c, p, cim, ReadAfterWrite(runs[c]))
     ELSE LET doc == DriverRead(c, p)
              isNew == ~doc.exists
              m == NewModel(made[c] + 1, p, isNew,
                            IF isNew THEN vals ELSE doc.d, FALSE, FALSE)
          IN IF ~cim /\ isNew
             THEN /\ Watch(c, p, AbsentSlot)
                  /\ GetReturns(c, p, cim, RetOf(AbsentSlot))
                  /\ Observe(c, p, doc)
                  /\ UNCHANGED <<store, hist, made, issued, touched,
                                 eventIndex, regs, saved, roWrite, options>>
             ELSE IF ~NewModelOk(isNew, m.vals, FALSE)
             THEN GetRaises(c, p, cim, LibErr("InvalidField", runs[c]))
             ELSE IF WatchRaises(c, p)
             THEN GetRaises(c, p, cim, LibErr("ModelTrackedTwice", runs[c]))
             ELSE /\ Watch(c, p, LiveSlot(m, "get"))
                  /\ GetReturns(c, p, cim, RetOf(LiveSlot(m, "get")))
                  /\ made' = [made EXCEPT ![c] = @ + 1]
                  /\ Observe(c, p, doc)
                  /\ touched' = [touched EXCEPT ![c] = @ \/ isNew]
                  /\ UNCHANGED <<store, hist, issued, eventIndex, regs, saved,
                                 roWrite, options>>

\* __watchForChangesToSave on a table t = [map, list] that an array get is
\* filling: whether it raises, and the table it leaves
LiveIn(t, p) == t.map[p] # 0 /\ t.list[t.map[p]].kind = "live"
TrackIn(t, p, slot) ==
  IF t.map[p] # 0
  THEN [t EXCEPT !.list[t.map[p]] = slot]
  ELSE [map |-> [t.map EXCEPT ![p] = Len(t.list) + 1],
        list |-> Append(t.list, slot)]

\* the keys of an array get that are fetched: the untracked ones, and with
\* createIfMissing those tracked as fetched absent
ToGet(c, ks, cim) ==
  LET Fetched(p) == ~GetHitsCache(c, p, cim)
  IN SelectSeq(ks, Fetched)

\* the order in which the __gotItem calls of __getItems reach
\* __watchForChangesToSave: a call for a missing document runs through when
\* it is made, a call for an existing one first awaits doc.data()
GotItemOrder(c, ps) ==
  LET Missing(p) == ~DriverRead(c, p).exists
      Existing(p) == DriverRead(c, p).exists
  IN SelectSeq(ps, Missing) \o SelectSeq(ps, Existing)

\* __gotItem for each path of ps in turn: acc.t is the table, acc.made the
\* models built, acc.err the first error raised (the one Promise.all
\* rejects with; the remaining calls still run)
RECURSIVE GotItems(_, _, _, _, _)
GotItems(c, ps, cim, vals, acc) ==
  IF ps = << >> THEN acc
  ELSE LET p == Head(ps)
           doc == DriverRead(c, p)
           isNew == ~doc.exists
           m == NewModel(acc.made + 1, p, isNew,
                         IF isNew THEN vals ELSE doc.d, FALSE, FALSE)
           Failed(e) == [acc EXCEPT !.err = IF @ = NoErr THEN e ELSE @]
           next ==
             IF ~cim /\ isNew
             THEN [acc EXCEPT !.t = TrackIn(@, p, AbsentSlot)]
             ELSE IF ~NewModelOk(isNew, m.vals, FALSE)
             THEN Failed(LibErr("InvalidField", runs[c]))
             ELSE IF LiveIn(acc.t, p)
             THEN Failed(LibErr("ModelTrackedTwice", runs[c]))
             ELSE [acc EXCEPT !.t = TrackIn(@, p, LiveSlot(m, "get")),
                              !.made = @ + 1,
                              !.touched = @ \/ isNew]
       IN GotItems(c, Tail(ps), cim, vals, next)

\* get([key, ...], params) and get([data, ...], {createIfMissing: true}):
\* the log gets one entry for each key of the array
GetAll(c, ks, cim, vals) ==
  /\ InClosure(c)
  /\ vals \in CreateVals
  /\ ks \in Seq(Paths) /\ ks # << >>
  /\ LET toGet == ToGet(c, ks, cim)
         paths == {toGet[i] : i \in 1 .. Len(toGet)}
         r == GotItems(c, GotItemOrder(c, toGet), cim, vals,
                       [t |-> [map |-> trackedMap[c], list |-> trackedList[c]],
                        made |-> made[c], touched |-> touched[c],
                        err |-> NoErr])
         Raises(e) ==
           /\ gets' = [gets EXCEPT ![c] =
                 @ \o [i \in 1 .. Len(ks) |-> GetEntry(c, ks[i], cim, Raised)]]
           /\ AttemptFailed(c, e)
           /\ UNCHANGED <<options, isUsingTx, hook, libVars, calls, runs, nops, fops>>
         Returns(t) ==
           /\ gets' = [gets EXCEPT ![c] =
                 @ \o [i \in 1 .. Len(ks) |->
                         GetEntry(c, ks[i], cim, RetOf(t.list[t.map[ks[i]]]))]]
           /\ Done(c)
           /\ options' = options
     IN IF \E i \in 1 .. Len(ks) : IsTracked(c, ks[i]) /\ ~options[c].cacheModels
        THEN Raises(LibErr("ModelTrackedTwice", runs[c])) /\ UNCHANGED restVars
        ELSE IF toGet = << >>
        THEN /\ Returns([map |-> trackedMap[c], list |-> trackedList[c]])
             /\ UNCHANGED restVars
        ELSE IF DriverReadFails(c)
        THEN Raises(ReadAfterWrite(runs[c])) /\ UNCHANGED restVars
        ELSE /\ IF r.err # NoErr THEN Raises(r.err) ELSE Returns(r.t)
             /\ trackedMap' = [trackedMap EXCEPT ![c] = r.t.map]
             /\ trackedList' = [trackedList EXCEPT ![c] = r.t.list]
             /\ made' = [made EXCEPT ![c] = r.made]
             /\ touched' = [touched EXCEPT ![c] = r.touched]
             /\ obs' = [obs EXCEPT ![c] =
                   [p \in Paths |->
                      IF p \in paths
                      THEN [doc |-> DriverRead(c, p), ver |-> Cardinality(hist)]
                      ELSE @[p]]]
             /\ tx' = [tx EXCEPT ![c].reads =
                   IF dbCtx[c] = "tx" THEN @ \cup paths ELSE @]
             /\ UNCHANGED <<store, hist, issued, eventIndex, regs, saved,
                            roWrite>>

\* create(Cls, data) and createOrOverwrite(Cls, data): local only
CreateModel(c, p, vals, isSet) ==
  LET m == NewModel(made[c] + 1, p, TRUE, vals, FALSE, isSet)
  IN IF ~NewModelOk(TRUE, vals, FALSE)
     THEN Raise(c, LibErr("InvalidField", runs[c]))
     ELSE IF WatchRaises(c, p)
     THEN Raise(c, LibErr("ModelTrackedTwice", runs[c]))
     ELSE /\ Watch(c, p, LiveSlot(m, IF isSet THEN "createOrOverwrite"
                                     ELSE "create"))
          /\ made' = [made EXCEPT ![c] = @ + 1]
          /\ touched' = [touched EXCEPT ![c] = TRUE]
          /\ roWrite' = [roWrite EXCEPT ![c] = @ \/ options[c].readOnly]
          /\ Done(c)
          /\ UNCHANGED <<store, hist, tx, gets, issued, obs, eventIndex,
                         regs, saved, options>>

Create(c, p, vals) ==
  /\ InClosure(c)
  /\ vals \in CreateVals
  /\ CreateModel(c, p, vals, FALSE)

CreateOrOverwrite(c, p, vals) ==
  /\ InClosure(c)
  /\ vals \in CreateVals
  /\ CreateModel(c, p, vals, TRUE)

\* __throwIfWritesNotAllowed
WritesNotAllowed(c) == options[c].readOnly

\* updateWithoutRead(Cls, data): the partial model is written, not tracked
UpdateWithoutRead(c, p, vals) ==
  /\ InClosure(c)
  /\ vals \in UpdateVals
  /\ LET m == NewModel(made[c] + 1, p, FALSE, vals, TRUE, FALSE)
     IN IF ~NewModelOk(FALSE, vals, TRUE)
        THEN Raise(c, LibErr("InvalidField", runs[c]))
        ELSE IF WritesNotAllowed(c)
        THEN Raise(c, LibErr("WriteAttemptedInReadOnlyTx", runs[c]))
        ELSE IF WriteHelperErr(m, runs[c]) # NoErr
        THEN Raise(c, WriteHelperErr(m, runs[c]))
        ELSE IF DriverWriteErr(c, WriteHelper(m)) # NoErr
        THEN Raise(c, DriverWriteErr(c, WriteHelper(m)))
        ELSE /\ DriverWrite(c, WriteHelper(m))
             /\ made' = [made EXCEPT ![c] = @ + 1]
             /\ touched' = [touched EXCEPT ![c] = TRUE]
             /\ Done(c)
             /\ UNCHANGED <<trackedMap, trackedList, gets, obs, eventIndex,
                            regs, saved, roWrite, options>>

\* delete finds the slot of the path already null
DeleteRaisesNever(c, p) == FALSE
DeleteRaises(c, p) == IsTracked(c, p) /\ SlotOf(c, p).kind = "deleted"

\* delete(key) and delete(model), one target
Delete(c, p) ==
  /\ InClosure(c)
  /\ IF WritesNotAllowed(c)
     THEN Raise(c, LibErr("WriteAttemptedInReadOnlyTx", runs[c]))
     ELSE IF DeleteRaises(c, p)
     THEN Raise(c, LibErr("DeletedTwice", runs[c]))
     ELSE /\ Watch(c, p, DeletedSlot)
          /\ DriverWrite(c, Write("delete", p, NoWrite))
          /\ touched' = [touched EXCEPT ![c] = TRUE]
          /\ Done(c)
          /\ UNCHANGED <<made, gets, obs, eventIndex, regs, saved, roWrite,
                         options>>

\* the closure uses the model in slot i
InClosureField(c) == pc[c] = "closure" /\ fops[c] < MaxFieldOps
LiveAt(c, i) ==
  i \in 1 .. Len(trackedList[c]) /\ trackedList[c][i].kind = "live"

FieldOp(c, i, f, fr) ==
  /\ trackedList' = [trackedList EXCEPT ![c][i].m.flds[f] = fr]
  /\ touched' = [touched EXCEPT ![c] = TRUE]
  /\ FieldDone(c)
  /\ UNCHANGED <<store, hist, trackedMap, tx, made, gets, issued, obs,
                 eventIndex, regs, saved, roWrite, options>>

\* model.f = v
SetField(c, i, f, v) ==
  /\ InClosureField(c)
  /\ LiveAt(c, i)
  /\ v \in SetVals
  /\ LET m == trackedList[c][i].m
     IN IF ~CachedFieldOk(m, f) \/ ~FieldSetOk(f, v)
        THEN Raise(c, LibErr("InvalidField", runs[c]))
        ELSE FieldOp(c, i, f, FieldSet(CachedField(m, f), v))

\* reading model.f
ReadField(c, i, f) ==
  /\ InClosureField(c)
  /\ LiveAt(c, i)
  /\ LET m == trackedList[c][i].m
     IN IF ~CachedFieldOk(m, f)
        THEN Raise(c, LibErr("InvalidField", runs[c]))
        ELSE FieldOp(c, i, f, FieldGet(CachedField(m, f)))

\* model.getField(f).incrementBy(1)
Increment(c, i, f) ==
  /\ InClosureField(c)
  /\ LiveAt(c, i)
  /\ LET m == trackedList[c][i].m
     IN IF ~CachedFieldOk(m, f) \/ ~IncrOk(CachedField(m, f), 1)
        THEN Raise(c, LibErr("InvalidField", runs[c]))
        ELSE /\ IncrementBy(CachedField(m, f), 1).value <= MaxVal
             /\ FieldOp(c, i, f, IncrementBy(CachedField(m, f), 1))

\* a call on field f of the model in slot i, inside try/catch: the closure
\* goes on whether the call returns or raises
InClosureCall(c) == pc[c] = "closure" /\ Len(calls[c]) < MaxFieldCalls
FieldCall(c, i, f, call) ==
  /\ InClosureCall(c)
  /\ LiveAt(c, i)
  /\ call \in FieldCalls
  /\ LET m == trackedList[c][i].m
         r == Called(f, CachedField(m, f), call)
     IN /\ CachedFieldOk(m, f)
        /\ r.fr.value <= MaxVal
        /\ trackedList' = [trackedList EXCEPT ![c][i].m.flds[f] = r.fr]
        /\ calls' = [calls EXCEPT ![c] =
             Append(@, [slot |-> i, f |-> f, op |-> call.op, arg |-> call.arg,
                        raised |-> r.raised])]
  /\ touched' = [touched EXCEPT ![c] = TRUE]
  /\ UNCHANGED <<ctlVars, isUsingTx, hook, libVars, runs, nops, fops, options, store,
                 hist, trackedMap, tx, made, gets, issued, obs, eventIndex,
                 regs, saved, roWrite>>

\* makeReadOnly() and enableModelCache()
MakeReadOnly(c) ==
  /\ InClosure(c)
  /\ options' = [options EXCEPT ![c].readOnly = TRUE]
  /\ Done(c)
  /\ UNCHANGED dataVars

EnableModelCache(c) ==
  /\ InClosure(c)
  /\ options' = [options EXCEPT ![c].cacheModels = TRUE]
  /\ Done(c)
  /\ UNCHANGED dataVars

\* ------------------------------------------------------------------------
\* Commit
\* ------------------------------------------------------------------------
\* __saveChangedModels from slot i on: acc.ws are the writes handed to the
\* driver so far, acc.st the database as a directly applied write leaves it,
\* acc.err the error that stopped the loop, acc.fin the paths of the models
\* whose finalize was called
\* the i-th slot the loop of __saveChangedModels visits
SlotAtReversed(c, i) == trackedList[c][Len(trackedList[c]) + 1 - i]
SlotAt(c, i) == trackedList[c][i]

RECURSIVE SaveChangedModels(_, _, _)
SaveChangedModels(c, i, acc) ==
  IF i > Len(trackedList[c]) \/ acc.err # NoErr THEN acc
  ELSE LET slot == SlotAt(c, i)
           m == slot.m
           w == WriteHelper(m)
       IN IF slot.kind = "live" /\ isMutated(m, ~options[c].readOnly)
          THEN IF WritesNotAllowed(c)
               THEN [acc EXCEPT !.err =
                       LibErr("WriteAttemptedInReadOnlyTx", runs[c])]
               ELSE IF WriteHelperErr(m, runs[c]) # NoErr
               THEN [acc EXCEPT !.err = WriteHelperErr(m, runs[c]),
                                !.fin = @ \cup {m.path}]
               ELSE IF dbCtx[c] = "db" /\ WriteFails(acc.st[w.path], w)
               THEN [acc EXCEPT !.err = WriteError(w, runs[c]),
                                !.fin = @ \cup {m.path}]
               ELSE SaveChangedModels(c, i + 1,
                      [st |-> IF dbCtx[c] = "db"
                              THEN [acc.st EXCEPT ![w.path] =
                                      ApplyWrite(acc.st[w.path], w)]
                              ELSE acc.st,
                       ws |-> Append(acc.ws, w),
                       err |-> NoErr,
                       fin |-> acc.fin \cup {m.path}])
          ELSE SaveChangedModels(c, i + 1, acc)

\* the driver finds that a document the transaction read has changed since
Contended(c) == \E p \in tx[c].reads : store[p] # tx[c].snap[p]

\* the closure returns: in a transaction the changed models are saved and
\* the transaction commits, all queued writes or none; lock tells whether
\* the driver gives up on a lock held by some other client
Return(c, lock) ==
  /\ pc[c] = "closure"
  /\ lock => (isUsingTx[c] /\ ~tx[c].ro)
  /\ UNCHANGED <<options, isUsingTx, hook, libVars, calls, runs, nops, fops, trackedMap,
                 made, gets, obs, touched, eventIndex, regs, roWrite>>
  /\ IF ~isUsingTx[c]
     THEN /\ AttemptSucceeded(c)
          /\ UNCHANGED <<store, hist, tx, issued, saved, trackedList>>
     ELSE LET r == SaveChangedModels(c, 1, [st |-> store, ws |-> << >>,
                                            err |-> NoErr, fin |-> {}])
              queued == tx[c].writes \o r.ws
              res == ApplyAll(queued, store, runs[c])
          IN /\ issued' = [issued EXCEPT ![c] = @ \o r.ws]
             /\ trackedList' = [trackedList EXCEPT ![c] =
                  [i \in 1 .. Len(trackedList[c]) |->
                    LET slot == trackedList[c][i]
                    IN IF slot.kind = "live" /\ slot.m.path \in r.fin
                       THEN [slot EXCEPT !.m = finalizeSettled(slot.m)]
                       ELSE slot]]
             /\ saved' = [saved EXCEPT ![c] = r.ws]
             /\ tx' = [tx EXCEPT ![c].writes = queued]
             /\ IF r.err # NoErr
                THEN /\ AttemptFailed(c, r.err)
                     /\ store' = r.st
                     /\ hist' = hist \cup {store'}
                ELSE IF dbCtx[c] = "db"
                THEN /\ AttemptSucceeded(c)
                     /\ store' = r.st
                     /\ hist' = hist \cup {store'}
                ELSE IF ~tx[c].ro /\ (lock \/ Contended(c))
                THEN /\ AttemptFailed(c, DriverLock(runs[c]))
                     /\ UNCHANGED <<store, hist>>
                ELSE IF ~res.ok
                THEN /\ AttemptFailed(c, res.err)
                     /\ UNCHANGED <<store, hist>>
                ELSE /\ AttemptSucceeded(c)
                     /\ store' = res.st
                     /\ hist' = hist \cup {store'}

\* ------------------------------------------------------------------------
\* Specifications
\* ------------------------------------------------------------------------
\* errors thrown by the closure where only the retryable marker matters
PlainErrors(at) ==
  { Err("Error", FALSE, 0, "", FALSE, at), Err("Error", TRUE, 0, "", FALSE, at) }

\* p1 holds a document (complete, or written before f2 existed), p2 none
DataStores ==
  { [p \in Paths |-> IF p = "p1" THEN d ELSE NoDoc] :
      d \in {Doc([f1 |-> 0, f2 |-> 0]), Doc([f1 |-> 1, f2 |-> Undef])} }

DataOptions == { o \in LegalOptions : o.retries <= 1 }

\* the closure has called fewer than MaxOps context methods
Few(c) == nops[c] < MaxOps

\* one context with every option, using the whole data interface
Init == InitWith({1}, DataOptions, DataStores)

Next ==
  \E c \in Ctxs :
    \/ BeginAttempt(c)
    \/ \E p \in Paths, cim \in BOOLEAN : Few(c) /\ Get(c, p, cim, NewVals)
    \/ \E p \in Paths : Few(c) /\ Create(c, p, NewVals)
    \/ \E p \in Paths : Few(c) /\ CreateOrOverwrite(c, p, OverwriteVals)
    \/ \E p \in Paths, vals \in UpdateVals :
         Few(c) /\ UpdateWithoutRead(c, p, vals)
    \/ \E p \in Paths : Few(c) /\ Delete(c, p)
    \/ \E i \in 1 .. MaxOps, f \in Fields, v \in SetVals : SetField(c, i, f, v)
    \/ \E i \in 1 .. MaxOps, f \in Fields : ReadField(c, i, f)
    \/ \E i \in 1 .. MaxOps, f \in Fields : Increment(c, i, f)
    \/ Few(c) /\ MakeReadOnly(c)
    \/ Few(c) /\ EnableModelCache(c)
    \/ \E lock \in BOOLEAN : Return(c, lock)
    \/ \E e \in PlainErrors(runs[c]) : Throw(c, e)

Spec == Init /\ [][Next]_vars

\* ------------------------------------------------------------------------
\* Properties of Spec
\* ------------------------------------------------------------------------
\* the step is the successful commit of an attempt of c, and it takes the
\* database to what all the writes the attempt handed to the driver make of it
CommitsBy(c) ==
  /\ isUsingTx[c]
  /\ pc[c] = "closure"
  /\ pc'[c] = "resolved"
  /\ LET res == ApplyAll(issued'[c], store, 0)
     IN res.ok /\ store' = res.st

\* C1: the writes of an attempt of a transactional context are applied
\* atomically: the database changes only in the step in which an attempt
\* commits successfully, and then by all the writes of that attempt; an
\* attempt that fails leaves the database as it was.
C1_AtomicCommit ==
  [][store' # store => \E c \in Ctxs : CommitsBy(c)]_vars

\* an attempt handed two writes to the driver, the driver refused the
\* create among them, and the database never changed
C1_Witness ==
  \E c \in Ctxs :
    /\ isUsingTx[c]
    /\ pc[c] = "rejected"
    /\ Len(issued[c]) = 2
    /\ lastThrown[c].code = 6
    /\ hist = {store}

\* a tracked model that was fetched and has been assigned a value other than
\* the one the database held
AssignedFetched(c) ==
  \E i \in 1 .. Len(trackedList[c]) :
    LET s == trackedList[c][i]
    IN /\ s.kind = "live"
       /\ ~s.m.isNew
       /\ \E f \in Fields :
            s.m.flds[f].written /\ s.m.flds[f].value # s.m.vals[f]

\* C5: with readOnly = true, whatever consistentReads is, a run in which
\* create or createOrOverwrite was called, or which ends with a fetched model
\* that was assigned a new value, does not resolve (the write method or the
\* commit raises, so the run rejects).
C5_ReadOnlyRejectsWrites ==
  \A c \in Ctxs :
    (pc[c] = "resolved" /\ options[c].readOnly)
      => (~roWrite[c] /\ ~AssignedFetched(c))

\* C6: with cacheModels = true a get of a key whose model is tracked returns
\* that same instance; with cacheModels = false a get of a key the context
\* already tracks raises ModelTrackedTwice.
C6_CachedGet ==
  \A c \in Ctxs :
    \A i \in 1 .. Len(gets[c]) :
      LET e == gets[c][i]
      IN /\ (e.cache /\ e.prev.kind = "model")
              => (e.kind = "model" /\ e.id = e.prev.id)
         /\ (~e.cache /\ e.prev.kind # "none")
              => (e.kind = "raise" /\ lastThrown[c].kind = "ModelTrackedTwice")

\* two successive gets of one key returned one instance, which carries the
\* assignment made through it
C6_Witness ==
  \E c \in Ctxs :
    /\ Len(gets[c]) = 2
    /\ gets[c][1].path = gets[c][2].path
    /\ gets[c][1].kind = "model"
    /\ gets[c][2].cache
    /\ gets[c][2].kind = "model"
    /\ gets[c][2].id = gets[c][1].id
    /\ \E f \in Fields : SlotOf(c, gets[c][1].path).m.flds[f].written

\* the fields of a tracked model whose value differs from the fetched one
ChangedFields(m) ==
  {f \in Fields : m.flds[f].cached /\ m.flds[f].value # m.vals[f]}

\* a tracked model that is new (created, or fetched with createIfMissing
\* where no document existed) or changed
NeedsWrite(c, s) ==
  /\ s.kind = "live"
  /\ \/ s.by # "get"
     \/ ~obs[c][s.m.path].doc.exists
     \/ ChangedFields(s.m) # {}

ExpectedKind(c, s) ==
  IF s.by = "createOrOverwrite" THEN "set"
  ELSE IF s.by = "create" \/ ~obs[c][s.m.path].doc.exists THEN "create"
  ELSE "update"

WritesFor(c, p) == {j \in 1 .. Len(saved[c]) : saved[c][j].path = p}

\* C9: at the commit of a writable transactional context, each tracked live
\* model that is new or changed produces exactly one write, an unchanged one
\* none; the write is a whole-document set for createOrOverwrite, a
\* create-only write for create and for a createIfMissing miss, and for a
\* fetched model an update carrying exactly the changed fields.
C9_WriteKinds ==
  \A c \in Ctxs :
    (pc[c] = "resolved" /\ isUsingTx[c] /\ ~options[c].readOnly) =>
      \A i \in 1 .. Len(trackedList[c]) :
        LET s == trackedList[c][i]
        IN s.kind = "live" =>
             IF NeedsWrite(c, s)
             THEN /\ Cardinality(WritesFor(c, s.m.path)) = 1
                  /\ \A j \in WritesFor(c, s.m.path) :
                       /\ saved[c][j].kind = ExpectedKind(c, s)
                       /\ saved[c][j].kind = "update" =>
                            \A f \in Fields :
                              (saved[c][j].data[f] # WNone)
                                <=> (f \in ChangedFields(s.m))
             ELSE WritesFor(c, s.m.path) = {}

\* a commit that wrote an update of a fetched model and a set of an
\* overwritten one
C9_Witness ==
  \E c \in Ctxs :
    /\ pc[c] = "resolved"
    /\ ~options[c].readOnly
    /\ Len(saved[c]) = 2
    /\ {saved[c][1].kind, saved[c][2].kind} = {"update", "set"}

SlotOrdered(c, ws) ==
  \A i, j \in 1 .. Len(ws) :
    (/\ i < j
     /\ ws[i].path # ws[j].path
     /\ IsTracked(c, ws[i].path)
     /\ IsTracked(c, ws[j].path))
      => trackedMap[c][ws[i].path] < trackedMap[c][ws[j].path]

\* C11 (as stated): the writes an attempt hands to the driver, deletes
\* included, follow the insertion order of the tracked slots: of two tracked
\* documents written in one attempt, the one whose slot was inserted first
\* has its write issued first.
C11_IssuedInSlotOrder ==
  \A c \in Ctxs : SlotOrdered(c, issued[c])

\* C11 (amended): the writes issued at commit (create, set and update of the
\* tracked live models) follow the insertion order of the tracked slots and
\* come after every write the closure issued itself; a delete is issued when
\* delete is called, so it is never among the writes of the commit.
C11_SavedInSlotOrder ==
  \A c \in Ctxs :
    /\ SlotOrdered(c, saved[c])
    /\ Len(saved[c]) <= Len(issued[c])
    /\ SubSeq(issued[c], Len(issued[c]) - Len(saved[c]) + 1, Len(issued[c]))
         = saved[c]
    /\ \A i \in 1 .. Len(saved[c]) : saved[c][i].kind # "delete"

\* a commit wrote the models of two documents, the first tracked one first
C11_Witness ==
  \E c \in Ctxs :
    /\ pc[c] = "resolved"
    /\ Len(saved[c]) = 2
    /\ trackedMap[c][saved[c][1].path] = 1
    /\ trackedMap[c][saved[c][2].path] = 2

\* the step is a create or createOrOverwrite of c that returned a model
\* for path p
CreatedOn(c, p) ==
  /\ pc[c] = "closure"
  /\ made'[c] = made[c] + 1
  /\ gets'[c] = gets[c]
  /\ trackedMap'[c][p] # 0
  /\ LET s == trackedList'[c][trackedMap'[c][p]]
     IN /\ IsTracked(c, p) => SlotOf(c, p) # s
        /\ s.kind = "live"
        /\ s.m.id = made'[c]
        /\ s.by \in {"create", "createOrOverwrite"}

\* the step is a create or createOrOverwrite of c that raised
\* ModelTrackedTwice (a get that raises is entered in gets)
CreateRaisedTwice(c) ==
  /\ pc[c] = "closure"
  /\ pc'[c] # "closure"
  /\ gets'[c] = gets[c]
  /\ lastThrown'[c].kind = "ModelTrackedTwice"

\* C15 (as stated): create and createOrOverwrite raise ModelTrackedTwice
\* when the path is already tracked and cacheModels is off, and do not
\* raise for a tracked path when cacheModels is on.
C15_TrackedTwiceUnlessCached ==
  [][\A c \in Ctxs :
       /\ \A p \in Paths :
            (CreatedOn(c, p) /\ IsTracked(c, p)) => options[c].cacheModels
       /\ CreateRaisedTwice(c) => ~options[c].cacheModels]_vars

\* C15 (amended): create and createOrOverwrite raise ModelTrackedTwice
\* exactly when the slot of the path holds a live model, whatever
\* cacheModels is; a path tracked as fetched absent or as deleted gets the
\* new model in its slot, an untracked path a new slot.
C15_TrackedTwiceWhenLive ==
  [][\A c \in Ctxs :
       /\ \A p \in Paths :
            CreatedOn(c, p) =>
              IF IsTracked(c, p)
              THEN /\ SlotOf(c, p).kind \in {"absent", "deleted"}
                   /\ trackedMap'[c] = trackedMap[c]
                   /\ Len(trackedList'[c]) = Len(trackedList[c])
              ELSE /\ trackedMap'[c][p] = Len(trackedList[c]) + 1
                   /\ Len(trackedList'[c]) = Len(trackedList[c]) + 1
       /\ CreateRaisedTwice(c) =>
            \E p \in Paths : IsTracked(c, p) /\ SlotOf(c, p).kind = "live"]_vars

\* with cacheModels on, a second create of a path was refused
C15_Witness ==
  \E c \in Ctxs :
    /\ options[c].cacheModels
    /\ pc[c] = "rejected"
    /\ lastThrown[c].kind = "ModelTrackedTwice"
    /\ gets[c] = << >>
    /\ Len(trackedList[c]) = 1
    /\ trackedList[c][1].kind = "live"

\* the step is a get of c; LastGet is its entry in the log
GetCalled(c) == Len(gets'[c]) = Len(gets[c]) + 1
LastGet(c) == gets'[c][Len(gets'[c])]

\* the get of the step returned what the slot held and touched neither the
\* driver nor the table
ReturnedCached(c) ==
  /\ LastGet(c).kind = LastGet(c).prev.kind
  /\ LastGet(c).id = LastGet(c).prev.id
  /\ made'[c] = made[c]
  /\ obs'[c] = obs[c]
  /\ tx'[c] = tx[c]
  /\ trackedList'[c] = trackedList[c]

\* C17 (as stated): with cacheModels on, a get of a path that is tracked
\* with a live model or as fetched absent returns what the slot holds, the
\* model or undefined, without a driver read, whatever the options of the
\* get.
C17_CachedWhateverOptions ==
  [][\A c \in Ctxs :
       (/\ GetCalled(c)
        /\ LastGet(c).cache
        /\ LastGet(c).prev.kind \in {"model", "undefined"})
         => ReturnedCached(c)]_vars

\* C17 (amended): with cacheModels on, a get of a tracked path returns what
\* the slot holds (the model, undefined for fetched absent, null for
\* deleted) without a driver read, except a get with createIfMissing of a
\* path tracked as fetched absent: that one reads the driver again and
\* tracks and returns a newly built model (or raises).
C17_CachedUnlessCreateIfMissing ==
  [][\A c \in Ctxs :
       (/\ GetCalled(c)
        /\ LastGet(c).cache
        /\ LastGet(c).prev.kind # "none")
         => IF LastGet(c).prev.kind = "undefined" /\ LastGet(c).cim
            THEN \/ LastGet(c).kind = "raise"
                 \/ /\ LastGet(c).kind = "model"
                    /\ made'[c] = made[c] + 1
                    /\ LastGet(c).id = made'[c]
                    /\ LET s == trackedList'[c][trackedMap'[c][LastGet(c).path]]
                       IN s.kind = "live" /\ s.by = "get" /\ s.m.id = made'[c]
                    /\ obs'[c][LastGet(c).path].ver # 0
            ELSE ReturnedCached(c)]_vars

\* with cacheModels on, a get found a document missing and a second get of
\* it, with createIfMissing, returned a new model
C17_Witness ==
  \E c \in Ctxs :
    /\ Len(gets[c]) = 2
    /\ gets[c][2].cache
    /\ gets[c][1].path = gets[c][2].path
    /\ gets[c][1].kind = "undefined"
    /\ gets[c][2].cim
    /\ gets[c][2].kind = "model"
    /\ SlotOf(c, gets[c][2].path).m.isNew

\* the step is a get of a document whose slot was last filled by create,
\* createOrOverwrite or delete
GetAfterWrite(c) ==
  /\ GetCalled(c)
  /\ IsTracked(c, LastGet(c).path)
  /\ SlotOf(c, LastGet(c).path).by \in {"create", "createOrOverwrite", "delete"}

MadeReadOnly(c) == isUsingTx[c] /\ options[c].readOnly /\ ~tx[c].ro

\* C20: a run whose closure calls makeReadOnly changes nothing in the
\* database, whatever it did before or after the call: it rejects with
\* nothing written, or commits without any write.
C20_MakeReadOnlyNoChange ==
  \A c \in Ctxs : MadeReadOnly(c) => hist = {store}

\* ------------------------------------------------------------------------
\* The retry loop: one context with every option; the closure registers
\* handlers, creates models, throws, or returns
\* ------------------------------------------------------------------------
InitRetry == InitWith({1}, LegalOptions, DataStores)

NextRetry ==
  \E c \in Ctxs :
    \/ BeginAttempt(c)
    \/ \E ev \in {POST_COMMIT, TX_FAILED} :
         Few(c) /\ AddEventHandler(c, ev, NoErr)
    \/ \E p \in Paths : Few(c) /\ Create(c, p, NewVals)
    \/ \E lock \in BOOLEAN : Return(c, lock)
    \/ \E e \in AppErrors(runs[c]) : Throw(c, e)

SpecRetry == InitRetry /\ [][NextRetry]_vars

\* C2: a run whose attempts all fail with a retryable error (the last one
\* did, and the run was rejected) invoked the closure retries + 1 times and
\* raises TransactionFailed wrapping the error of the last attempt.
C2_RetriesExhausted ==
  \A c \in Ctxs :
    (pc[c] = "rejected" /\ lastErr[c].retryable) =>
      /\ runs[c] = options[c].retries + 1
      /\ lastErr[c].at = runs[c]
      /\ outcome[c].err.kind = "TransactionFailed"
      /\ outcome[c].err.original = <<lastErr[c].kind>> \o lastErr[c].original

\* three attempts of a run with retries = 2 met lock contention at commit
C2_Witness ==
  \E c \in Ctxs :
    /\ pc[c] = "rejected"
    /\ options[c].retries = 2
    /\ runs[c] = 3
    /\ outcome[c].err.kind = "TransactionFailed"
    /\ outcome[c].err.original = <<"TransactionLockTimeout", "DriverError">>

\* C3 (as stated): once an attempt has failed with an error that carries no
\* retryable marker, no further attempt is made and the run rejects with
\* that error as classified, not wrapped.
C3_NoMarkerNotRetried ==
  \A c \in Ctxs :
    (lastThrown[c] # NoErr /\ ~lastThrown[c].retryable) =>
      (pc[c] = "rejected" /\ outcome[c].err = lastErr[c])

\* C3 (amended): once an attempt has failed with an error that carries no
\* retryable marker and has not the driver's lock-contention signature
\* (status code 10, "lock" in the details), no further attempt is made and
\* the run rejects with that error, unwrapped: the error itself, or
\* ModelAlreadyExists for the driver's already-exists error.
C3_NonRetryableNotRetried ==
  \A c \in Ctxs :
    (/\ lastThrown[c] # NoErr
     /\ ~lastThrown[c].retryable
     /\ ~IsLockSignature(lastThrown[c])) =>
      /\ pc[c] = "rejected"
      /\ runs[c] = lastThrown[c].at
      /\ outcome[c].err =
           IF lastThrown[c].code = 6 /\ lastThrown[c].elt
           THEN LibErr("ModelAlreadyExists", runs[c])
           ELSE lastThrown[c]

\* the second attempt of a run with retries left was refused at commit
\* because the document exists, and the run stopped there
C3_Witness ==
  \E c \in Ctxs :
    /\ pc[c] = "rejected"
    /\ runs[c] = 2
    /\ options[c].retries > tryCnt[c]
    /\ lastThrown[c].kind = "DriverError"
    /\ outcome[c].err = LibErr("ModelAlreadyExists", 2)

\* C4 (as stated): a run that resolves after k failed attempts invoked the
\* closure k + 1 times, resolves with the value of the last invocation, and
\* has invoked each POST_COMMIT handler that invocation registered exactly
\* once, and no other handler.
C4_HandlersOnce ==
  \A c \in Ctxs :
    pc[c] = "resolved" =>
      /\ runs[c] = tryCnt[c] + 1
      /\ outcome[c].ret = runs[c]
      /\ Len(emitted[c]) = regs[c]
      /\ \A i \in 1 .. Len(emitted[c]) :
           emitted[c][i].event = POST_COMMIT /\ emitted[c][i].at = runs[c]

\* C12: every attempt, the first and each retry, with or without a
\* transaction, starts with an empty tracked-document table and no
\* registered event handler: nothing of an earlier attempt is left when the
\* closure is called.
C12_AttemptStartsClean ==
  \A c \in Ctxs :
    (pc[c] = "closure" /\ nops[c] = 0 /\ fops[c] = 0) =>
      /\ trackedList[c] = << >>
      /\ trackedMap[c] = [p \in Paths |-> 0]
      /\ handlers[c] = << >>

\* ------------------------------------------------------------------------
\* Lifecycle events: as the retry loop, with handlers that may raise
\* ------------------------------------------------------------------------
EventsOptions == { o \in LegalOptions : o.retries <= 1 }

InitEvents == InitWith({1}, EventsOptions, DataStores)

NextEvents ==
  \E c \in Ctxs :
    \/ BeginAttempt(c)
    \/ \E ev \in {POST_COMMIT, TX_FAILED}, r \in HandlerRaises(runs[c]) :
         Few(c) /\ AddEventHandler(c, ev, r)
    \/ \E lock \in BOOLEAN : Return(c, lock)
    \/ \E e \in AppErrors(runs[c]) : Throw(c, e)

SpecEvents == InitEvents /\ [][NextEvents]_vars

\* how many times the run of c has emitted ev
EmittedTimes(c, ev) ==
  Cardinality({i \in 1 .. Len(events[c]) : events[c][i].event = ev})

\* C13: a run emits exactly one of the two lifecycle events, exactly once:
\* POST_COMMIT if and only if it resolves, TX_FAILED if and only if it
\* rejects; POST_COMMIT is never emitted by a run that goes on to another
\* attempt or fails.
C13_OneLifecycleEvent ==
  \A c \in Ctxs :
    /\ EmittedTimes(c, POST_COMMIT) = IF pc[c] = "resolved" THEN 1 ELSE 0
    /\ EmittedTimes(c, TX_FAILED) = IF pc[c] = "rejected" THEN 1 ELSE 0

\* the last handler invoked was registered for ev and raised
HandlerRaised(c, ev) ==
  /\ emitted[c] # << >>
  /\ emitted[c][Len(emitted[c])].event = ev
  /\ emitted[c][Len(emitted[c])].raises # NoErr

\* C14 (as stated): whenever a run rejects, after exhausted retries or a
\* non-retryable failure, TX_FAILED was emitted with a TransactionFailed
\* error wrapping the underlying error, and that wrapper is what the run
\* rejects with.
C14_FailureWrapped ==
  \A c \in Ctxs :
    pc[c] = "rejected" =>
      /\ events[c] # << >>
      /\ LET last == events[c][Len(events[c])]
         IN /\ last.event = TX_FAILED
            /\ last.arg.kind = "TransactionFailed"
            /\ last.arg.original = <<lastErr[c].kind>> \o lastErr[c].original
            /\ outcome[c].err = last.arg

\* C14 (amended): whenever a run rejects, TX_FAILED was emitted last, with
\* the error the run rejects with (a raising TX_FAILED handler apart, whose
\* error takes its place): after exhausted retries a TransactionFailed
\* wrapping the last attempt's error, after a non-retryable failure that
\* error itself as classified, not wrapped.
C14_FailureEvent ==
  \A c \in Ctxs :
    pc[c] = "rejected" =>
      /\ events[c] # << >>
      /\ LET last == events[c][Len(events[c])]
         IN /\ last.event = TX_FAILED
            /\ IF lastErr[c].retryable
               THEN /\ tryCnt[c] = options[c].retries
                    /\ last.arg.kind = "TransactionFailed"
                    /\ last.arg.original =
                         <<lastErr[c].kind>> \o lastErr[c].original
               ELSE last.arg = lastErr[c]
            /\ outcome[c].err =
                 IF HandlerRaised(c, TX_FAILED)
                 THEN emitted[c][Len(emitted[c])].raises
                 ELSE last.arg

\* a run gave up after a retry, its TX_FAILED handler was invoked and the
\* run rejects with the TransactionFailed wrapper
C14_Witness ==
  \E c \in Ctxs :
    /\ pc[c] = "rejected"
    /\ runs[c] = 2
    /\ lastErr[c].retryable
    /\ emitted[c] # << >>
    /\ emitted[c][Len(emitted[c])].event = TX_FAILED
    /\ ~HandlerRaised(c, TX_FAILED)
    /\ outcome[c].err.kind = "TransactionFailed"
    /\ outcome[c].err = events[c][Len(events[c])].arg

\* ------------------------------------------------------------------------
\* Deletions: one writable transactional context creates, fetches and
\* deletes, up to MaxCalls times
\* ------------------------------------------------------------------------
DeleteOptions ==
  { o \in LegalOptions : ~o.readOnly /\ o.consistentReads /\ o.retries = 0 }

InitDelete == InitWith({1}, DeleteOptions, DataStores)

NextDelete ==
  \E c \in Ctxs :
    \/ BeginAttempt(c)
    \/ \E p \in Paths, cim \in BOOLEAN : Get(c, p, cim, NewVals)
    \/ \E p \in Paths : Create(c, p, NewVals)
    \/ \E p \in Paths : CreateOrOverwrite(c, p, OverwriteVals)
    \/ \E p \in Paths : Delete(c, p)
    \/ Return(c, FALSE)

SpecDelete == InitDelete /\ [][NextDelete]_vars

\* the deletes of path p the attempt of c has handed to the driver
DeletesOf(c, p) ==
  {i \in 1 .. Len(issued[c]) :
     issued[c][i].kind = "delete" /\ issued[c][i].path = p}

DeletedOn(c, p) ==
  /\ pc[c] = "closure"
  /\ issued'[c] = Append(issued[c], Write("delete", p, NoWrite))

ArrayOptions == { o \in LegalOptions : o.consistentReads /\ o.retries = 0 }

KeyArrays == { <<p, q>> : p \in Paths, q \in Paths }

InitArray == InitWith({1}, ArrayOptions, DataStores)

NextArray ==
  \E c \in Ctxs :
    \/ BeginAttempt(c)
    \/ \E ks \in KeyArrays, cim \in BOOLEAN :
         Few(c) /\ GetAll(c, ks, cim, NewVals)
    \/ Return(c, FALSE)

SpecArray == InitArray /\ [][NextArray]_vars

\* C19: a get given an array in which one key occurs twice raises an error,
\* with cacheModels on or off, whether the document exists or not.
C19_DuplicateKeysRaise ==
  \A c \in Ctxs :
    \A i \in 1 .. Len(gets[c]) :
      (i % 2 = 1 /\ gets[c][i].path = gets[c][i + 1].path)
        => gets[c][i].kind = "raise"

\* ------------------------------------------------------------------------
\* Concurrent increments: two writable transactional contexts fetch p1 and
\* increment f1
\* ------------------------------------------------------------------------
IncrOptions ==
  { o \in LegalOptions : ~o.readOnly /\ ~o.cacheModels /\ o.retries >= 1 }

InitIncr == InitWith({1, 2}, IncrOptions, DataStores)

NextIncr ==
  \E c \in Ctxs :
    \/ BeginAttempt(c)
    \/ Few(c) /\ Get(c, "p1", FALSE, NewVals)
    \/ Increment(c, 1, "f1")
    \/ \E lock \in BOOLEAN : Return(c, lock)

SpecIncr == InitIncr /\ [][NextIncr]_vars

\* the value of p1.f1 before any commit: the least the database ever held
StartVal ==
  CHOOSE v \in {st["p1"].d.f1 : st \in hist} :
    \A st \in hist : v <= st["p1"].d.f1

\* what the resolved run of c added to f1 without reading it
Added(c) ==
  IF pc[c] = "resolved" /\ Len(trackedList[c]) >= 1
     /\ trackedList[c][1].m.flds["f1"].diff # Undef
  THEN trackedList[c][1].m.flds["f1"].diff
  ELSE 0

\* C7: the increments of concurrent contexts add up: the stored value is
\* the starting value plus what every resolved run added, so two runs that
\* each call incrementBy(1) without reading the field leave it at start + 2.
C7_IncrementsAddUp ==
  store["p1"].d.f1 = StartVal + Added(1) + Added(2)

\* both contexts fetched the document before either committed, each
\* incremented once and both runs resolved
C7_Witness ==
  /\ pc[1] = "resolved"
  /\ pc[2] = "resolved"
  /\ Added(1) = 1
  /\ Added(2) = 1
  /\ runs[1] + runs[2] >= 3
  /\ store["p1"].d.f1 = StartVal + 2

\* ------------------------------------------------------------------------
\* Snapshots: two read-only contexts read p1 and p2 while a writer updates
\* both documents in one transaction
\* ------------------------------------------------------------------------
SnapOptions == { o \in LegalOptions : ~o.cacheModels /\ o.retries = 0 }

SnapStores ==
  { [p \in Paths |-> Doc([f1 |-> 0, f2 |-> 0])] }

InitSnap ==
  /\ InitWith(Ctxs, SnapOptions, SnapStores)
  /\ options[1].readOnly
  /\ options[2].readOnly
  /\ ~options[3].readOnly

NextSnap ==
  \E c \in Ctxs :
    \/ BeginAttempt(c)
    \/ \E p \in Paths : Few(c) /\ Get(c, p, FALSE, NewVals)
    \/ \E p \in Paths : Few(c) /\ UpdateWithoutRead(c, p, NewVals)
    \/ \E lock \in BOOLEAN : Return(c, lock)

SpecSnap == InitSnap /\ [][NextSnap]_vars

\* the documents the attempt has read all belong to one state the database
\* has been in
Consistent(c) ==
  \E st \in hist :
    \A p \in Paths : obs[c][p].ver # 0 => obs[c][p].doc = st[p]

\* C8: the reads of an attempt of a transactional context all come from one
\* state of the database, whatever commits in between; only a context that
\* uses no transaction (readOnly with consistentReads = false) can read
\* documents that never coexisted.
C8_ConsistentReads ==
  \A c \in Ctxs : isUsingTx[c] => Consistent(c)

\* the writer committed between the two reads of both readers: the
\* transactional one still read one state, the other read a mix
C8_Witness ==
  \E c, n \in Ctxs :
    /\ isUsingTx[c]
    /\ obs[c]["p1"].ver # 0
    /\ obs[c]["p2"].ver # 0
    /\ obs[c]["p1"].ver # obs[c]["p2"].ver
    /\ Consistent(c)
    /\ ~isUsingTx[n]
    /\ ~Consistent(n)

\* ------------------------------------------------------------------------
\* Deleting models: contexts 1 and 3 fetch, create and delete by key or by
\* a model that is new; context 2 deletes only models that were read from
\* the store, its own or those a finished run of context 1 returned
\* ------------------------------------------------------------------------
\* delete(model): the key is the model's key (key = a.__key), whichever run
\* fetched the model d holds for p
DeleteModel(c, d, p, isNew) ==
  /\ IsTracked(d, p)
  /\ SlotOf(d, p).kind = "live"
  /\ SlotOf(d, p).m.isNew = isNew
  /\ d # c => outcome[d].status = "resolved"
  /\ Delete(c, p)

DeleteModelOptions == { o \in DeleteOptions : ~o.cacheModels }

InitDeleteModel == InitWith({1, 2, 3}, DeleteModelOptions, DataStores)

NextDeleteModel ==
  \/ \E c \in Ctxs : BeginAttempt(c)
  \/ \E c \in {1, 2}, p \in Paths : Few(c) /\ Get(c, p, FALSE, NewVals)
  \/ \E p \in Paths : Few(3) /\ Get(3, p, TRUE, NewVals)
  \/ \E p \in Paths : Few(3) /\ Delete(3, p)
  \/ \E p \in Paths : Few(3) /\ DeleteModel(3, 3, p, TRUE)
  \/ \E d \in {1, 2}, p \in Paths : Few(2) /\ DeleteModel(2, d, p, FALSE)
  \/ \E c \in Ctxs : Return(c, FALSE)

SpecDeleteModel == InitDeleteModel /\ [][NextDeleteModel]_vars

\* the step is the commit of an attempt of c that queued a delete of p
CommitsDelete(c, p) ==
  /\ pc[c] = "closure"
  /\ outcome'[c].status = "resolved"
  /\ DeletesOf(c, p) # {}

\* C21 (as stated): a delete of a model that was read from the store carries
\* an existence precondition: the attempt that issued it commits only if the
\* document exists at commit time. (Context 2 deletes nothing but such
\* models.)
C21_FetchedDeleteNeedsDocument ==
  [][\A p \in Paths : CommitsDelete(2, p) => store[p].exists]_vars

\* ------------------------------------------------------------------------
\* Tracking: one writable transactional context that uses the five data
\* methods
\* ------------------------------------------------------------------------
TrackOptions == { o \in LegalOptions : ~o.readOnly /\ o.retries = 0 }

InitTrack == InitWith({1}, TrackOptions, DataStores)

NextTrack ==
  \E c \in Ctxs :
    \/ BeginAttempt(c)
    \/ \E p \in Paths, cim \in BOOLEAN : Get(c, p, cim, NewVals)
    \/ \E p \in Paths : Create(c, p, NewVals)
    \/ \E p \in Paths : CreateOrOverwrite(c, p, OverwriteVals)
    \/ \E p \in Paths, vals \in UpdateVals : UpdateWithoutRead(c, p, vals)
    \/ \E p \in Paths : Delete(c, p)
    \/ Return(c, FALSE)

SpecTrack == InitTrack /\ [][NextTrack]_vars

\* the step is a get of p by c that returned
GotOn(c, p) ==
  /\ nops'[c] = nops[c] + 1
  /\ Len(gets'[c]) = Len(gets[c]) + 1
  /\ gets'[c][Len(gets'[c])].path = p

\* the step is an updateWithoutRead (kind "update") or a delete (kind
\* "delete") of p by c that returned: it handed one write to the driver
WroteOn(c, p, kind) ==
  /\ nops'[c] = nops[c] + 1
  /\ Len(issued'[c]) = Len(issued[c]) + 1
  /\ issued'[c][Len(issued'[c])].path = p
  /\ issued'[c][Len(issued'[c])].kind = kind

\* the step is a create or createOrOverwrite of p by c that returned: it
\* built a model without reading or writing anything
BuiltOn(c, p) ==
  /\ nops'[c] = nops[c] + 1
  /\ gets'[c] = gets[c]
  /\ issued'[c] = issued[c]
  /\ made'[c] = made[c] + 1
  /\ \E i \in 1 .. Len(trackedList'[c]) :
       /\ trackedList'[c][i].kind = "live"
       /\ trackedList'[c][i].m.path = p
       /\ trackedList'[c][i].m.id = made'[c]

CalledOn(c, p) ==
  GotOn(c, p) \/ BuiltOn(c, p) \/ WroteOn(c, p, "update")
    \/ WroteOn(c, p, "delete")

TrackedAfter(c, p) == trackedMap'[c][p] \in 1 .. Len(trackedList'[c])

\* C22 (as stated): every get, create, createOrOverwrite, updateWithoutRead
\* or delete that returns leaves a tracked slot for the document it
\* addressed.
C22_EveryCallTracks ==
  [][\A c \in Ctxs, p \in Paths : CalledOn(c, p) => TrackedAfter(c, p)]_vars

\* C22 (amended): a get, create, createOrOverwrite or delete that returns
\* leaves a tracked slot for the document it addressed (a live model,
\* "fetched absent" or, from the cache, "deleted" after a get, a live model
\* after a create or overwrite, "deleted" after a delete); an
\* updateWithoutRead that returns hands its write to the driver and leaves
\* the table as it was.
C22_CallsTrackButUpdate ==
  [][\A c \in Ctxs, p \in Paths :
       /\ GotOn(c, p) =>
            /\ TrackedAfter(c, p)
            /\ trackedList'[c][trackedMap'[c][p]].kind
                 \in {"live", "absent", "deleted"}
       /\ BuiltOn(c, p) =>
            /\ TrackedAfter(c, p)
            /\ trackedList'[c][trackedMap'[c][p]].kind = "live"
       /\ WroteOn(c, p, "delete") =>
            /\ TrackedAfter(c, p)
            /\ trackedList'[c][trackedMap'[c][p]].kind = "deleted"
       /\ WroteOn(c, p, "update") =>
            /\ trackedMap'[c] = trackedMap[c]
            /\ trackedList'[c] = trackedList[c]]_vars

\* an updateWithoutRead of an untracked document has returned and the
\* document is still untracked, next to a document the attempt tracks
C22_Witness ==
  \E c \in Ctxs, p, q \in Paths :
    /\ pc[c] = "closure"
    /\ \E i \in 1 .. Len(issued[c]) :
         issued[c][i].kind = "update" /\ issued[c][i].path = p
    /\ ~IsTracked(c, p)
    /\ IsTracked(c, q)

\* ------------------------------------------------------------------------
\* The finalize hook: one writable transactional context whose model class
\* has a finalize hook
\* ------------------------------------------------------------------------
FinalizeOptions ==
  { o \in LegalOptions : ~o.readOnly /\ ~o.cacheModels /\ o.retries = 0 }

InitFinalize == InitHooked({1}, FinalizeOptions, DataStores, Hooks)

NextFinalize ==
  \E c \in Ctxs :
    \/ BeginAttempt(c)
    \/ \E p \in Paths, cim \in BOOLEAN : Few(c) /\ Get(c, p, cim, NewVals)
    \/ \E p \in Paths : Few(c) /\ Create(c, p, NewVals)
    \/ \E p \in Paths : Few(c) /\ CreateOrOverwrite(c, p, OverwriteVals)
    \/ \E p \in Paths, vals \in UpdateVals :
         Few(c) /\ UpdateWithoutRead(c, p, vals)
    \/ \E i \in 1 .. MaxOps, f \in Fields, v \in SetVals : SetField(c, i, f, v)
    \/ Return(c, FALSE)

SpecFinalize == InitFinalize /\ [][NextFinalize]_vars

\* C23 (as stated): the finalize hook of a model has run to completion
\* before the data of its create, overwrite or update is collected: the
\* assignment the hook makes is part of every such write.
C23_FinalizeInWrite ==
  \A c \in Ctxs :
    \A i \in 1 .. Len(issued[c]) :
      (hook.when # "never" /\ issued[c][i].kind # "delete") =>
        issued[c][i].data[hook.f] = WSet(hook.v)

\* C24: a get of an untracked key that returns tracks the key: when the
\* document exists, with a model that is not new and holds the fetched
\* values, which is returned; when it is missing and createIfMissing was
\* asked for, with a new model built from the values of the Data, which is
\* returned; when it is missing and createIfMissing was not asked for, as
\* "fetched absent", and undefined is returned.
C24_GetOfUntrackedKey ==
  [][\A c \in Ctxs, p \in Paths :
       (GotOn(c, p) /\ ~IsTracked(c, p)) =>
         LET e == gets'[c][Len(gets'[c])]
             doc == DriverRead(c, p)
             slot == trackedList'[c][trackedMap'[c][p]]
         IN /\ TrackedAfter(c, p)
            /\ IF doc.exists
               THEN /\ slot.kind = "live"
                    /\ ~slot.m.isNew
                    /\ slot.m.vals = doc.d
                    /\ e.kind = "model" /\ e.id = slot.m.id
               ELSE IF e.cim
               THEN /\ slot.kind = "live"
                    /\ slot.m.isNew
                    /\ slot.m.vals = NewVals
                    /\ e.kind = "model" /\ e.id = slot.m.id
               ELSE /\ slot.kind = "absent"
                    /\ e.kind = "undefined"]_vars

\* the attempt has fetched an existing document and, with createIfMissing,
\* a missing one
C24_Witness ==
  \E c \in Ctxs, p, q \in Paths :
    /\ pc[c] = "closure"
    /\ Len(gets[c]) = 2
    /\ gets[c][1].prev = NoRet /\ gets[c][2].prev = NoRet
    /\ IsTracked(c, p) /\ IsTracked(c, q)
    /\ SlotOf(c, p).kind = "live" /\ ~SlotOf(c, p).m.isNew
    /\ SlotOf(c, p).by = "get"
    /\ SlotOf(c, q).kind = "live" /\ SlotOf(c, q).m.isNew
    /\ SlotOf(c, q).by = "get"

\* ------------------------------------------------------------------------
\* Defaults applied on load: one read-only context, with or without a
\* transaction, fetches documents and reads or assigns a field
\* ------------------------------------------------------------------------
ReadOnlyOptions ==
  { o \in LegalOptions : o.readOnly /\ ~o.cacheModels /\ o.retries = 0 }

InitReadOnly == InitWith({1}, ReadOnlyOptions, DataStores)

NextReadOnly ==
  \E c \in Ctxs :
    \/ BeginAttempt(c)
    \/ \E p \in Paths : Few(c) /\ Get(c, p, FALSE, NewVals)
    \/ \E i \in 1 .. MaxOps, f \in Fields : ReadField(c, i, f)
    \/ \E i \in 1 .. MaxOps, f \in Fields, v \in SetVals : SetField(c, i, f, v)
    \/ Return(c, FALSE)

SpecReadOnly == InitReadOnly /\ [][NextReadOnly]_vars

\* the fields of the models c tracks
FieldsOf(c) ==
  { trackedList[c][i].m.flds[f] :
      i \in { j \in 1 .. Len(trackedList[c]) : trackedList[c][j].kind = "live" },
      f \in Fields }

\* the only change of the field is the default applied when it was loaded
DefaultOnLoad(fr) == fr.cached /\ fr.useDefault /\ ~fr.written /\ Mutated(fr)

\* the field got its default on load and was assigned since
DefaultAssigned(fr) == fr.cached /\ fr.useDefault /\ fr.written

\* C25 (as stated): in a read-only context a field whose only change is the
\* default applied on load reports no changes to commit, while one that was
\* assigned reports them; a run that fetched and read such a document
\* commits without a write and without WriteAttemptedInReadOnlyTx, and a
\* run that assigned such a field does not resolve.
C25_DefaultOnLoadNotCommitted ==
  \A c \in Ctxs :
    /\ \A fr \in FieldsOf(c) :
         /\ DefaultOnLoad(fr) => ~hasChangesToCommit(fr, ~options[c].readOnly)
         /\ DefaultAssigned(fr) => hasChangesToCommit(fr, ~options[c].readOnly)
    /\ (pc[c] = "rejected" /\ outcome[c].err.kind = "WriteAttemptedInReadOnlyTx")
         => \E fr \in FieldsOf(c) : fr.written
    /\ pc[c] = "resolved" =>
         /\ issued[c] = << >>
         /\ \A fr \in FieldsOf(c) : ~DefaultAssigned(fr)

\* ------------------------------------------------------------------------
\* Backoff: one context with every legal pair of initialBackoff and
\* maxBackoff of a small set, whose closure throws or returns
\* ------------------------------------------------------------------------
\* the constructor accepts initialBackoff >= 1 and maxBackoff >= 200
InitialBackoffs == {1, 20, 250}
MaxBackoffs == {200, 300}

BackoffOptions ==
  { o \in LegalOptions : ~o.readOnly /\ ~o.cacheModels }

InitBackoff ==
  InitFull({1}, BackoffOptions, DataStores, {NoHook},
           { Backoff(i, m) : i \in InitialBackoffs, m \in MaxBackoffs })

NextBackoff ==
  \E c \in Ctxs :
    \/ BeginAttempt(c)
    \/ \E e \in PlainErrors(runs[c]) : Throw(c, e)
    \/ Return(c, FALSE)

SpecBackoff == InitBackoff /\ [][NextBackoff]_vars

\* 2^n
RECURSIVE Pow2(_)
Pow2(n) == IF n = 0 THEN 1 ELSE 2 * Pow2(n - 1)

\* b_n = min(maxBackoff, initialBackoff * 2^(n-1)), in milliseconds
BaseDelay(b, n) == MinOf(b.max, b.initial * Pow2(n - 1))

\* C26 (as stated): the delay slept before the n-th retry is b_n plus a
\* jitter of at most 10% of b_n in either direction, b_n being
\* min(maxBackoff, initialBackoff * 2^(n-1)), for every legal pair of
\* initialBackoff and maxBackoff. (slept is in tenths of a millisecond.)
C26_DelayWithinTenPercent ==
  \A c \in Ctxs :
    tryCnt[c] >= 1 =>
      LET bn == BaseDelay(backoff[c], tryCnt[c])
      IN /\ 10 * bn - bn <= backoff[c].slept
         /\ backoff[c].slept <= 10 * bn + bn

\* ------------------------------------------------------------------------
\* Sequences of get, set and incrementBy calls on the fields of one model
\* ------------------------------------------------------------------------
FieldOptions ==
  { o \in LegalOptions : ~o.readOnly /\ ~o.cacheModels /\ o.retries = 0 }

InitField == InitWith({1}, FieldOptions, DataStores)

NextField ==
  \E c \in Ctxs :
    \/ BeginAttempt(c)
    \/ \E cim \in BOOLEAN : nops[c] = 0 /\ Get(c, "p1", cim, NewVals)
    \/ nops[c] = 0 /\ Create(c, "p2", NewVals)
    \/ \E f \in Fields, call \in FieldCalls : FieldCall(c, 1, f, call)
    \/ Return(c, FALSE)

SpecField == InitField /\ [][NextField]_vars

\* the calls context c made on field f that returned
ReturnedCalls(c, f) ==
  { k \in 1 .. Len(calls[c]) : calls[c][k].f = f /\ ~calls[c][k].raised }
ReadOrSetOccurred(c, f) ==
  \E k \in ReturnedCalls(c, f) : calls[c][k].op \in {"get", "set"}

\* C27: when a run commits a write of a numeric field after a sequence of
\* get, set and incrementBy calls, the field is written with the increment
\* sentinel if and only if it has an increment accumulator, its loaded
\* value is defined and no read of the field nor explicit set returned in
\* the sequence; otherwise its full current value is written.
C27_SentinelIffNoReadNorSet ==
  \A c \in Ctxs :
    (pc[c] = "resolved" /\ Len(issued[c]) = 1 /\ Len(trackedList[c]) = 1
       /\ trackedList[c][1].kind = "live") =>
      \A f \in Fields :
        LET w == issued[c][1].data[f]
            fr == trackedList[c][1].m.flds[f]
        IN w.op # "none" =>
             IF fr.diff # Undef /\ fr.initial # Undef
                /\ ~ReadOrSetOccurred(c, f)
             THEN w = [op |-> "inc", v |-> fr.diff]
             ELSE w \in {WSet(fr.value), WDel}

\* the step is a call on a field by context c; the call, and the field
\* before and after it
CallMade(c) == Len(calls'[c]) = Len(calls[c]) + 1
LastCall(c) == calls'[c][Len(calls'[c])]
FieldBefore(c) ==
  CachedField(trackedList[c][LastCall(c).slot].m, LastCall(c).f)
FieldAfter(c) == trackedList'[c][LastCall(c).slot].m.flds[LastCall(c).f]

C29_FailedCallLeavesField ==
  [][\A c \in Ctxs :
       (CallMade(c) /\ LastCall(c).raised) =>
         /\ LastCall(c).op \in {"set", "incrementBy"}
         /\ FieldGet(FieldAfter(c)).value = FieldGet(FieldBefore(c)).value
         /\ Mutated(FieldAfter(c)) = Mutated(FieldBefore(c))
         /\ FieldAfter(c).written = FieldBefore(c).written
         /\ FieldAfter(c).diff = FieldBefore(c).diff
         /\ FieldAfter(c) = FieldBefore(c)]_vars

\* a set raised on a field that was not written, and on a field holding an
\* accumulator, which it still holds
C29_Witness ==
  \E c \in Ctxs, f \in Fields :
    /\ Len(calls[c]) = 3
    /\ \A k \in 1 .. 3 : calls[c][k].f = f
    /\ calls[c][1].op = "set" /\ calls[c][1].raised
    /\ calls[c][2].op = "incrementBy" /\ ~calls[c][2].raised
    /\ calls[c][3].op = "set" /\ calls[c][3].raised
    /\ trackedList[c][1].m.flds[f].diff = calls[c][2].arg
    /\ trackedList[c][1].m.flds[f].written

\* C30: after set(v) with a valid v on a field, get() returns v, the field
\* is marked written, and mutated is true exactly when v differs from the
\* field's initial value, for every variant of field.
C30_ValidSet ==
  [][\A c \in Ctxs :
       (CallMade(c) /\ LastCall(c).op = "set" /\ ~LastCall(c).raised) =>
         /\ validateValue(LastCall(c).f, LastCall(c).arg)
         /\ FieldGet(FieldAfter(c)).value = LastCall(c).arg
         /\ FieldAfter(c).written
         /\ \A kind \in FieldKinds :
              MutatedOf(kind, FieldAfter(c))
                <=> (LastCall(c).arg # FieldBefore(c).initial)]_vars

\* a loaded field was set to another value and then to the loaded value
C30_Witness ==
  \E c \in Ctxs, f \in Fields :
    /\ Len(calls[c]) = 2
    /\ \A k \in 1 .. 2 : calls[c][k].f = f /\ calls[c][k].op = "set"
                         /\ ~calls[c][k].raised
    /\ calls[c][1].arg # trackedList[c][1].m.flds[f].initial
    /\ calls[c][2].arg = trackedList[c][1].m.flds[f].initial
    /\ trackedList[c][1].m.flds[f].initial # Undef
    /\ trackedList[c][1].m.flds[f].written
    /\ ~Mutated(trackedList[c][1].m.flds[f])

\* ------------------------------------------------------------------------
\* Snapshots of a tracked model
\* ------------------------------------------------------------------------
\* getSnapshot calls the getter of every field, which builds the fields not
\* built so far, and reads __value or __initialValue without get()
SnapshotOk(m) == \A f \in Fields : CachedFieldOk(m, f)
Snapshot(m) == [m EXCEPT !.flds = [f \in Fields |-> CachedField(m, f)]]

Snapshots(c, is) ==
  /\ pc[c] = "closure"
  /\ \A i \in is : LiveAt(c, i)
  /\ IF \E i \in is : ~SnapshotOk(trackedList[c][i].m)
     THEN Raise(c, LibErr("InvalidField", runs[c]))
     ELSE /\ trackedList' = [trackedList EXCEPT ![c] =
               [i \in 1 .. Len(trackedList[c]) |->
                  IF i \in is
                  THEN [trackedList[c][i] EXCEPT !.m = Snapshot(@)]
                  ELSE trackedList[c][i]]]
          /\ UNCHANGED <<ctlVars, isUsingTx, hook, libVars, calls, runs, nops, fops,
                         options, store, hist, trackedMap, tx, made, gets,
                         issued, obs, touched, eventIndex, regs, saved,
                         roWrite>>

\* model.getSnapshot(params), for any params
GetSnapshot(c, i) == Snapshots(c, {i})

\* getModelDiffs(): a snapshot of every model of the list
GetModelDiffs(c) ==
  /\ trackedList[c] # << >>
  /\ Snapshots(c, { i \in 1 .. Len(trackedList[c]) : LiveAt(c, i) })

ModelSnapshotOptions ==
  { o \in LegalOptions : ~o.readOnly /\ ~o.cacheModels /\ o.retries = 0 }

InitModelSnapshot == InitWith({1}, ModelSnapshotOptions, DataStores)

NextModelSnapshot ==
  \E c \in Ctxs :
    \/ BeginAttempt(c)
    \/ \E p \in Paths, cim \in BOOLEAN : Few(c) /\ Get(c, p, cim, NewVals)
    \/ \E p \in Paths : Few(c) /\ Create(c, p, NewVals)
    \/ \E i \in 1 .. MaxOps, f \in Fields : ReadField(c, i, f)
    \/ \E i \in 1 .. MaxOps, f \in Fields, v \in SetVals : SetField(c, i, f, v)
    \/ \E i \in 1 .. MaxOps : GetSnapshot(c, i)
    \/ GetModelDiffs(c)
    \/ Return(c, FALSE)

SpecModelSnapshot == InitModelSnapshot /\ [][NextModelSnapshot]_vars

\* the step takes a snapshot of models of context c
SnapshotTaken(c) ==
  \/ \E i \in 1 .. MaxOps : GetSnapshot(c, i)
  \/ GetModelDiffs(c)

\* what __saveChangedModels would hand to the driver, or raise, if the
\* closure returned now
PendingWrites(c) ==
  LET r == SaveChangedModels(c, 1, [st |-> store, ws |-> << >>,
                                    err |-> NoErr, fin |-> {}])
  IN [ws |-> r.ws, err |-> r.err]

AccessFlags(c) ==
  [i \in 1 .. Len(trackedList[c]) |->
     [f \in Fields |-> <<trackedList[c][i].m.flds[f].read,
                         trackedList[c][i].m.flds[f].written>>]]

\* C31: taking a snapshot of tracked models (getSnapshot, getModelDiffs)
\* flips no field's read or written flag and leaves unchanged the writes
\* the attempt hands to the driver at commit.
C31_SnapshotKeepsCommit ==
  [][\A c \in Ctxs :
       SnapshotTaken(c) =>
         /\ AccessFlags(c)' = AccessFlags(c)
         /\ PendingWrites(c)' = PendingWrites(c)]_vars

\* ------------------------------------------------------------------------
\* Encoded identifiers of compound keys
\* ------------------------------------------------------------------------
\* a string is a sequence of characters; NUL is the character '\0'
MaxStrLen == 2
NUL == "NUL"
StrChars == {"a", "1", NUL}
Strings(n) == UNION { [1 .. k -> StrChars] : k \in 0 .. n }

\* component values: a string, a number, an object { s: <string> }, or
\* undefined
StrVal(s) == [t |-> "string", s |-> s, n |-> 0]
NumVal(n) == [t |-> "number", s |-> << >>, n |-> n]
ObjVal(s) == [t |-> "object", s |-> s, n |-> 0]
UndefVal == [t |-> "undefined", s |-> << >>, n |-> 0]

KeyNums == {-1, 0, 7, 10}
ValuesOf(type) ==
  CASE type = "string" -> { StrVal(s) : s \in Strings(MaxStrLen) }
                            \cup {NumVal(7), UndefVal}
    [] type = "number" -> { NumVal(n) : n \in KeyNums }
                            \cup {StrVal(<<"1">>), UndefVal}
    [] OTHER -> { ObjVal(s) : s \in Strings(1) }
                            \cup {StrVal(<<"a">>), UndefVal}

\* the model classes: __keyOrder (component names, sorted) and the schema
\* type of each component
KeyClasses == {"SimpleExample", "CompoundIDExample", "ObjKeyExample"}
keyOrder(cls) ==
  CASE cls = "SimpleExample" -> <<"id">>
    [] cls = "CompoundIDExample" -> <<"make", "year">>
    [] OTHER -> <<"obj", "tag">>
SchemaType(name) ==
  CASE name = "year" -> "number"
    [] name = "obj" -> "object"
    [] OTHER -> "string"

KeyNames(cls) == { keyOrder(cls)[i] : i \in 1 .. Len(keyOrder(cls)) }
ComponentMaps(cls) ==
  { k \in [KeyNames(cls) -> UNION { ValuesOf(SchemaType(nm)) : nm \in KeyNames(cls) }] :
      \A nm \in KeyNames(cls) : k[nm] \in ValuesOf(SchemaType(nm)) }

\* validateValue of a key component that is not undefined
ValidComponent(name, v) == v.t = SchemaType(name)

\* JSON text of a number
Digit(d) == <<"0", "1", "2", "3", "4", "5", "6", "7", "8", "9">>[d + 1]
RECURSIVE Decimal(_)
Decimal(n) ==
  IF n < 0 THEN <<"-">> \o Decimal(0 - n)
  ELSE IF n < 10 THEN <<Digit(n)>>
  ELSE Decimal(n \div 10) \o <<Digit(n % 10)>>

\* JSON text of a string: NUL is written as an escape
EscapeNone(ch) == ch
Escape(ch) == IF ch = NUL THEN "\\u0000" ELSE ch
Unescape(ch) == IF ch = "\\u0000" THEN NUL ELSE ch
Quoted(s) == <<"\"">> \o [i \in 1 .. Len(s) |-> Escape(s[i])] \o <<"\"">>

\* stableStringify
stableStringify(v) ==
  CASE v.t = "number" -> Decimal(v.n)
    [] v.t = "string" -> Quoted(v.s)
    [] OTHER -> <<"{">> \o Quoted(<<"s">>) \o <<":">> \o Quoted(v.s) \o <<"}">>

\* pieces.join('\0') and val.split('\0')
RECURSIVE Join(_)
Join(pieces) ==
  IF Len(pieces) = 0 THEN << >>
  ELSE IF Len(pieces) = 1 THEN pieces[1]
  ELSE pieces[1] \o <<NUL>> \o Join(Tail(pieces))

RECURSIVE Split(_)
Split(s) ==
  IF \A i \in 1 .. Len(s) : s[i] # NUL THEN <<s>>
  ELSE LET at == CHOOSE i \in 1 .. Len(s) :
                   s[i] = NUL /\ \A j \in 1 .. i - 1 : s[j] # NUL
       IN <<SubSeq(s, 1, at - 1)>> \o Split(SubSeq(s, at + 1, Len(s)))

\* JSON.parse of a piece: a number, or an object { s: <string> }
DigitOf(ch) == CHOOSE d \in 0 .. 9 : Digit(d) = ch
IsDigits(s) ==
  Len(s) > 0 /\ \A i \in 1 .. Len(s) : \E d \in 0 .. 9 : Digit(d) = s[i]
RECURSIVE ParseDigits(_)
ParseDigits(s) ==
  IF Len(s) = 0 THEN 0
  ELSE 10 * ParseDigits(SubSeq(s, 1, Len(s) - 1)) + DigitOf(s[Len(s)])
ObjPrefix == <<"{">> \o Quoted(<<"s">>) \o <<":", "\"">>
ObjSuffix == <<"\"", "}">>
ParseOk(piece) ==
  \/ IsDigits(piece)
  \/ Len(piece) > 1 /\ piece[1] = "-" /\ IsDigits(Tail(piece))
  \/ /\ Len(piece) >= Len(ObjPrefix) + Len(ObjSuffix)
     /\ SubSeq(piece, 1, Len(ObjPrefix)) = ObjPrefix
     /\ SubSeq(piece, Len(piece) - 1, Len(piece)) = ObjSuffix
Parse(piece) ==
  IF IsDigits(piece) THEN NumVal(ParseDigits(piece))
  ELSE IF piece[1] = "-" THEN NumVal(0 - ParseDigits(Tail(piece)))
  ELSE LET body == SubSeq(piece, Len(ObjPrefix) + 1, Len(piece) - 2)
       IN ObjVal([i \in 1 .. Len(body) |-> Unescape(body[i])])

\* __encodeCompoundValue: whether it raises, and the string it returns
EncodeRaises(cls, k) ==
  \E nm \in KeyNames(cls) :
    \/ k[nm] = UndefVal
    \/ ~ValidComponent(nm, k[nm])
    \/ k[nm].t = "string" /\ \E i \in 1 .. Len(k[nm].s) : k[nm].s[i] = NUL
encodeCompoundValue(cls, k) ==
  Join([i \in 1 .. Len(keyOrder(cls)) |->
         LET v == k[keyOrder(cls)[i]]
         IN IF v.t = "string" THEN v.s ELSE stableStringify(v)])

\* __decodeCompoundValue: whether it raises, and the map it returns
DecodeRaises(cls, id) ==
  \/ Len(Split(id)) # Len(keyOrder(cls))
  \/ \E i \in 1 .. Len(keyOrder(cls)) :
       /\ SchemaType(keyOrder(cls)[i]) # "string"
       /\ \/ ~ParseOk(Split(id)[i])
          \/ ~ValidComponent(keyOrder(cls)[i], Parse(Split(id)[i]))
decodeCompoundValue(cls, id) ==
  [nm \in KeyNames(cls) |->
     LET i == CHOOSE j \in 1 .. Len(keyOrder(cls)) : keyOrder(cls)[j] = nm
     IN IF SchemaType(nm) = "string" THEN StrVal(Split(id)[i])
        ELSE Parse(Split(id)[i])]

CodecDone ==
  UNCHANGED <<ctlVars, restVars, gets, options, isUsingTx, hook, calls, runs,
              nops, fops, keyList, given, inflight>>

\* Cls.__encodeCompoundValue(Cls.__keyOrder, k)
EncodeKey ==
  /\ codec.stage = "given"
  /\ codec' = IF EncodeRaises(codec.cls, codec.k)
              THEN [codec EXCEPT !.stage = "raised"]
              ELSE [codec EXCEPT !.stage = "encoded",
                                 !.id = encodeCompoundValue(codec.cls, codec.k)]
  /\ CodecDone

\* Cls.__decodeCompoundValue(Cls.__keyOrder, id)
DecodeKey ==
  /\ codec.stage = "encoded"
  /\ codec' = IF DecodeRaises(codec.cls, codec.id)
              THEN [codec EXCEPT !.stage = "decode raised"]
              ELSE [codec EXCEPT !.stage = "decoded",
                                 !.out = decodeCompoundValue(codec.cls, codec.id)]
  /\ CodecDone

InitCodec ==
  /\ InitContext({}, LegalOptions, DataStores, {NoHook}, {Backoff(1, 10000)})
  /\ keyList = NoKeyList
  /\ given = << >>
  /\ \E cls \in KeyClasses : \E k \in ComponentMaps(cls) :
       codec = [cls |-> cls, k |-> k, stage |-> "given", id |-> << >>,
                out |-> << >>]

NextCodec == EncodeKey \/ DecodeKey

SpecCodec == InitCodec /\ [][NextCodec]_vars

\* every component is valid for its schema, and no string component has NUL
LegalKey(cls, k) ==
  \A nm \in KeyNames(cls) :
    /\ k[nm].t = SchemaType(nm)
    /\ k[nm].t = "string" => \A i \in 1 .. Len(k[nm].s) : k[nm].s[i] # NUL

\* C32: for every model class and every legal key-component map k, the
\* encoding of k does not raise and decoding the encoded identifier yields
\* a component map equal to k.
C32_DecodeEncode ==
  LegalKey(codec.cls, codec.k) =>
    /\ codec.stage \notin {"raised", "decode raised"}
    /\ codec.stage = "decoded" => codec.out = codec.k

\* an object component holding NUL next to a string component was encoded
\* and decoded, and so was a number of two digits
C32_Witness ==
  /\ codec.stage = "decoded"
  /\ codec.cls = "ObjKeyExample"
  /\ codec.k["obj"] = ObjVal(<<NUL>>)
  /\ codec.k["tag"] = StrVal(<<"a", "1">>)
  /\ Len(Split(codec.id)) = 2

\* ------------------------------------------------------------------------
\* UniqueKeyList
\* ------------------------------------------------------------------------
\* keys of two model classes; class names and encoded ids are strings
ListKeys ==
  { [cls |-> n, id |-> i] :
      n \in {<<"A">>, <<"A", "B">>}, i \in {<<"x">>, <<"B", ":", ":", "x">>} }
MaxGiven == 4
KeySeqs(n) == UNION { [1 .. k -> ListKeys] : k \in 0 .. n }

\* `${key.Cls.name}::${key.encodedKey}`
getKeyHash(key) == key.cls \o <<":", ":">> \o key.id

\* constructor (...keys): super(...keys), then the set of the keys' hashes
UniqueKeyList(keys) ==
  [items |-> keys,
   hashes |-> { getKeyHash(keys[i]) : i \in 1 .. Len(keys) }]

\* push (...keys)
RECURSIVE push(_, _)
push(list, keys) ==
  IF Len(keys) = 0 THEN list
  ELSE LET key == Head(keys)
       IN IF getKeyHash(key) \in list.hashes
          THEN push(list, Tail(keys))
          ELSE push([items |-> Append(list.items, key),
                     hashes |-> list.hashes \cup {getKeyHash(key)}],
                    Tail(keys))

Push(keys) ==
  /\ Len(given) + Len(keys) <= MaxGiven
  /\ keyList' = push(keyList, keys)
  /\ given' = given \o keys
  /\ UNCHANGED <<ctlVars, restVars, gets, options, isUsingTx, hook, calls,
                 runs, nops, fops, codec, inflight>>

InitKeyList ==
  /\ InitContext({}, LegalOptions, DataStores, {NoHook}, {Backoff(1, 10000)})
  /\ codec = NoCodec
  /\ \E keys \in KeySeqs(2) :
       /\ keyList = UniqueKeyList(keys)
       /\ given = keys

NextKeyList == \E keys \in KeySeqs(2) \ {<< >>} : Push(keys)

SpecKeyList == InitKeyList /\ [][NextKeyList]_vars

\* the keys of s, each at its first occurrence
RECURSIVE FirstSeen(_)
FirstSeen(s) ==
  IF Len(s) = 0 THEN << >>
  ELSE LET front == FirstSeen(SubSeq(s, 1, Len(s) - 1))
           last == s[Len(s)]
       IN IF \E i \in 1 .. Len(front) :
               front[i].cls = last.cls /\ front[i].id = last.id
          THEN front ELSE Append(front, last)

\* C33: after any construction and pushes, a UniqueKeyList holds no two
\* keys with the same class name and encoded id, and holds the keys it was
\* given in first-seen order (so that pushing a key already present leaves
\* it unchanged).
C33_UniqueInFirstSeenOrder ==
  /\ \A i, j \in 1 .. Len(keyList.items) :
       (keyList.items[i].cls = keyList.items[j].cls
          /\ keyList.items[i].id = keyList.items[j].id) => i = j
  /\ keyList.items = FirstSeen(given)

\* ------------------------------------------------------------------------
\* The tracked-document table, by key
\* ------------------------------------------------------------------------
\* keys of three model classes with the same encoded id; KeyOnlyExample2
\* gives the collection name of KeyOnlyExample
TableKeys ==
  { [cls |-> n, id |-> "x"] :
      n \in {"KeyOnlyExample", "KeyOnlyExample2", "SimpleExample"} }
collectionName(cls) ==
  IF cls = "KeyOnlyExample2" THEN "KeyOnlyExample" ELSE cls

\* key.docRef.path: the collection name and the encoded id
docRefPath(key) ==
  IF collectionName(key.cls) = "KeyOnlyExample" THEN "p1" ELSE "p2"

TableOptions == { o \in LegalOptions : o.retries = 0 }

InitTable == InitWith({1}, TableOptions, DataStores)

NextTable ==
  \E c \in Ctxs :
    \/ BeginAttempt(c)
    \/ \E k \in TableKeys, cim \in BOOLEAN :
         Get(c, docRefPath(k), cim, NewVals)
    \/ \E k \in TableKeys : Create(c, docRefPath(k), NewVals)
    \/ \E k \in TableKeys : CreateOrOverwrite(c, docRefPath(k), OverwriteVals)
    \/ \E k \in TableKeys : Delete(c, docRefPath(k))
    \/ Return(c, FALSE)

SpecTable == InitTable /\ [][NextTable]_vars

\* C34: after any get, create, createOrOverwrite and delete calls of one
\* attempt the tracked-documents table has exactly one slot per document
\* path: every tracked path points to an index of the list, no two paths
\* to the same one, and every slot of the list has its path; keys with
\* equal ids in different collections have different slots, and keys of
\* one path share a slot.
C34_OneSlotPerPath ==
  \A c \in Ctxs :
    /\ \A p \in Paths : trackedMap[c][p] \in 0 .. Len(trackedList[c])
    /\ \A p, q \in Paths :
         (IsTracked(c, p) /\ trackedMap[c][p] = trackedMap[c][q]) => p = q
    /\ \A i \in 1 .. Len(trackedList[c]) :
         \E p \in Paths : trackedMap[c][p] = i
    /\ \A k1, k2 \in TableKeys :
         (IsTracked(c, docRefPath(k1)) /\ IsTracked(c, docRefPath(k2))) =>
           ((trackedMap[c][docRefPath(k1)] = trackedMap[c][docRefPath(k2)])
              <=> (collectionName(k1.cls) = collectionName(k2.cls)
                     /\ k1.id = k2.id))

\* both collections have a slot, one of them first filled by a get that
\* found no document and then by a create
C34_Witness ==
  \E c \in Ctxs :
    /\ Len(trackedList[c]) = 2
    /\ Len(gets[c]) = 1 /\ gets[c][1].kind = "undefined"
    /\ trackedList[c][trackedMap[c][gets[c][1].path]].kind = "live"
    /\ nops[c] = 3

\* ------------------------------------------------------------------------
\* Which failed attempts are retried
\* ------------------------------------------------------------------------
\* errors a closure may throw, among them one that has the retryable marker
\* and the fields of the driver's already-exists error
MarkedErrors(at) ==
  AppErrors(at) \cup { Err("Error", TRUE, 6, "other", TRUE, at),
                       Err("Error", TRUE, 10, "other", FALSE, at) }

InitRetryable == InitWith({1}, LegalOptions, DataStores)

NextRetryable ==
  \E c \in Ctxs :
    \/ BeginAttempt(c)
    \/ \E p \in Paths : Few(c) /\ Create(c, p, NewVals)
    \/ \E lock \in BOOLEAN : Return(c, lock)
    \/ \E e \in MarkedErrors(runs[c]) : Throw(c, e)

SpecRetryable == InitRetryable /\ [][NextRetryable]_vars

\* the step ends an attempt of c with an error
AttemptFails(c) == pc[c] = "closure" /\ pc'[c] \in {"begin", "rejected"}

\* C35: a failed attempt is followed by another attempt if and only if
\* attempts remain and the error carries the retryable marker or has the
\* driver's lock signature (status code 10, "lock" in the details); every
\* other error ends the run.
C35_RetriedIffRetryable ==
  [][\A c \in Ctxs :
       AttemptFails(c) =>
         ((pc'[c] = "begin")
            <=> (/\ tryCnt[c] < options[c].retries
                 /\ \/ lastThrown'[c].retryable
                    \/ IsLockSignature(lastThrown'[c])))]_vars

\* C36: once an attempt of a run has committed (POST_COMMIT has been
\* emitted), the run is resolved: the closure is not executed again, TX_FAILED
\* is not emitted and the run does not reject, whatever the POST_COMMIT
\* handlers do.
C36_CommittedRunResolves ==
  \A c \in Ctxs :
    EmittedTimes(c, POST_COMMIT) >= 1 =>
      /\ pc[c] = "resolved"
      /\ EmittedTimes(c, TX_FAILED) = 0

\* ------------------------------------------------------------------------
\* Options across the attempts of a run
\* ------------------------------------------------------------------------
\* runs started writable and without model cache, with retries
ToggleOptions ==
  { o \in LegalOptions : ~o.readOnly /\ ~o.cacheModels /\ o.retries >= 1 }

InitToggle == InitWith({1}, ToggleOptions, DataStores)

NextToggle ==
  \E c \in Ctxs :
    \/ BeginAttempt(c)
    \/ \E p \in Paths : Few(c) /\ Create(c, p, NewVals)
    \/ Few(c) /\ MakeReadOnly(c)
    \/ Few(c) /\ EnableModelCache(c)
    \/ \E e \in PlainErrors(runs[c]) : Throw(c, e)
    \/ \E lock \in BOOLEAN : Return(c, lock)

SpecToggle == InitToggle /\ [][NextToggle]_vars

\* C37: every attempt starts with the option values the run was started
\* with: in an attempt whose closure has made no call yet, readOnly and
\* cacheModels are as at the start of the run (off) and the transaction was
\* opened for writing.
C37_AttemptStartsWithRunOptions ==
  \A c \in Ctxs :
    (pc[c] = "closure" /\ nops[c] = 0) =>
      /\ options[c] \in ToggleOptions
      /\ isUsingTx[c] => ~tx[c].ro

\* ------------------------------------------------------------------------
\* Gets whose executions overlap
\* ------------------------------------------------------------------------
\* at most this many gets of a context await the driver at a time
MaxInflight == 2

PendingGet(p, cim, doc, vals) ==
  [path |-> p, cim |-> cim, doc |-> doc, vals |-> vals]

RECURSIVE Without(_, _)
Without(s, i) ==
  IF i = 1 THEN Tail(s) ELSE <<Head(s)>> \o Without(Tail(s), i - 1)

\* get(key, params) up to its await of __getItem: the checks against the
\* table, and the driver read it starts
GetIssue(c, p, cim, vals) ==
  /\ InClosure(c)
  /\ vals \in CreateVals
  /\ Len(inflight[c]) < MaxInflight
  /\ IF IsTracked(c, p) /\ ~options[c].cacheModels
     THEN GetRaises(c, p, cim, LibErr("ModelTrackedTwice", runs[c]))
     ELSE IF GetHitsCache(c, p, cim)
     THEN /\ GetReturns(c, p, cim, RetOf(SlotOf(c, p)))
          /\ UNCHANGED <<restVars, options>>
     ELSE IF DriverReadFails(c)
     THEN GetRaises(c, p, cim, ReadAfterWrite(runs[c]))
     ELSE /\ inflight' = [inflight EXCEPT ![c] =
               Append(@, PendingGet(p, cim, DriverRead(c, p), vals))]
          /\ Observe(c, p, DriverRead(c, p))
          /\ nops' = [nops EXCEPT ![c] = @ + 1]
          /\ UNCHANGED <<ctlVars, store, hist, trackedMap, trackedList, made,
                         issued, touched, eventIndex, regs, saved, roWrite,
                         gets, options, isUsingTx, hook, calls, runs, fops,
                         codec, keyList, given>>

\* the resolved get raises e, which the closure lets propagate
GotItemRaises(c, g, e) ==
  /\ gets' = [gets EXCEPT ![c] = Append(@, GetEntry(c, g.path, g.cim, Raised))]
  /\ AttemptFailed(c, e)
  /\ UNCHANGED <<restVars, options, isUsingTx, hook, calls, runs, nops, fops,
                 codec, keyList, given>>

\* the resolved get returns what slot holds
GotItemReturns(c, g, slot) ==
  /\ gets' = [gets EXCEPT ![c] =
       Append(@, GetEntry(c, g.path, g.cim, RetOf(slot)))]
  /\ Watch(c, g.path, slot)
  /\ UNCHANGED <<ctlVars, store, hist, tx, obs, issued, eventIndex, regs,
                 saved, roWrite, options, isUsingTx, hook, calls, runs, nops,
                 fops, codec, keyList, given>>

\* the driver read of the i-th pending get resolves: __gotItem, and the rest
\* of get, which returns the model just fetched
GetResolve(c, i) ==
  /\ pc[c] = "closure"
  /\ i \in 1 .. Len(inflight[c])
  /\ inflight' = [inflight EXCEPT ![c] = Without(@, i)]
  /\ LET g == inflight[c][i]
         isNew == ~g.doc.exists
         m == NewModel(made[c] + 1, g.path, isNew,
                       IF isNew THEN g.vals ELSE g.doc.d, FALSE, FALSE)
     IN IF ~g.cim /\ isNew
        THEN IF WatchRaises(c, g.path)
             THEN GotItemRaises(c, g, LibErr("ModelTrackedTwice", runs[c]))
             ELSE /\ GotItemReturns(c, g, AbsentSlot)
                  /\ UNCHANGED <<made, touched>>
        ELSE IF ~NewModelOk(isNew, m.vals, FALSE)
        THEN GotItemRaises(c, g, LibErr("InvalidField", runs[c]))
        ELSE IF WatchRaises(c, g.path)
        THEN GotItemRaises(c, g, LibErr("ModelTrackedTwice", runs[c]))
        ELSE /\ GotItemReturns(c, g, LiveSlot(m, "get"))
             /\ made' = [made EXCEPT ![c] = @ + 1]
             /\ touched' = [touched EXCEPT ![c] = @ \/ isNew]

\* one attempt with the model cache on
OverlapOptions == { o \in LegalOptions : o.cacheModels /\ o.retries = 0 }

InitOverlap == InitWith({1}, OverlapOptions, DataStores)

NextOverlap ==
  \E c \in Ctxs :
    \/ BeginAttempt(c)
    \/ \E p \in Paths, cim \in BOOLEAN : GetIssue(c, p, cim, NewVals)
    \/ \E i \in 1 .. MaxInflight : GetResolve(c, i)
    \/ \E f \in Fields, v \in SetVals, i \in 1 .. MaxCalls :
         SetField(c, i, f, v)
    \/ Return(c, FALSE)

SpecOverlap == InitOverlap /\ [][NextOverlap]_vars

\* C38: with cacheModels on, a get of a key completes without
\* ModelTrackedTwice and returns what the table holds for that key, also
\* when the key was not tracked yet at the time the get was issued, that is,
\* when another get of the same key resolved while this one was awaiting the
\* driver (a get with createIfMissing of a key fetched as absent excepted,
\* which reads the driver again).
C38_OverlappingGetsReturnOneInstance ==
  \A c \in Ctxs :
    \A i \in DOMAIN gets[c] :
      LET e == gets[c][i]
      IN (e.cache /\ e.prev.kind # "none"
            /\ ~(e.prev.kind = "undefined" /\ e.cim))
           => (e.kind = e.prev.kind /\ e.id = e.prev.id)

\* ------------------------------------------------------------------------
\* Models deleted before the closure returns
\* ------------------------------------------------------------------------
InitDrop == InitWith({1}, DeleteOptions, DataStores)

NextDrop ==
  \E c \in Ctxs :
    \/ BeginAttempt(c)
    \/ \E p \in Paths, cim \in BOOLEAN : Get(c, p, cim, NewVals)
    \/ \E p \in Paths : Create(c, p, NewVals)
    \/ \E p \in Paths : CreateOrOverwrite(c, p, OverwriteVals)
    \/ \E f \in Fields, v \in SetVals, i \in 1 .. MaxCalls :
         SetField(c, i, f, v)
    \/ \E p \in Paths : Delete(c, p)
    \/ Return(c, FALSE)

SpecDrop == InitDrop /\ [][NextDrop]_vars

\* the writes of path p that __saveChangedModels issued for the attempt of c
SavedOf(c, p) == {i \in 1 .. Len(saved[c]) : saved[c][i].path = p}

\* C39: a document whose slot is 'deleted' when the closure returns gets no
\* create, set or update from the commit: __saveChangedModels issues no write
\* for it, and once the attempt has committed the document does not exist.
C39_DeletedSlotIsNotSaved ==
  \A c \in Ctxs, p \in Paths :
    (IsTracked(c, p) /\ SlotOf(c, p).kind = "deleted") =>
      /\ SavedOf(c, p) = {}
      /\ pc[c] = "resolved" => ~store[p].exists

\* the one model the closure obtained was assigned to and then deleted, and
\* the attempt committed
C39_Witness ==
  \E c \in Ctxs, p \in Paths :
    /\ pc[c] = "resolved"
    /\ IsTracked(c, p) /\ SlotOf(c, p).kind = "deleted"
    /\ Len(trackedList[c]) = 1
    /\ made[c] = 1
    /\ fops[c] = 1
    /\ DeletesOf(c, p) # {}

\* ------------------------------------------------------------------------
\* delete(...args) with several targets
\* ------------------------------------------------------------------------
\* at most this many targets in one call
MaxTargets == 2

\* a target is the key (or the model) of a path, or a value that is neither
BadTarget == "bad"
Targets == Paths \cup {BadTarget}
TargetSeqs ==
  UNION { [1 .. n -> Targets] : n \in 1 .. MaxTargets }

\* the loop of delete over the targets ts: acc.t is the table, acc.ws the
\* deletes handed to the driver, acc.err the error that ended the loop
RECURSIVE DeleteEach(_, _, _)
DeleteEach(ts, at, acc) ==
  IF ts = << >> \/ acc.err # NoErr THEN acc
  ELSE LET a == Head(ts)
       IN IF a = BadTarget
          THEN [acc EXCEPT !.err = LibErr("InvalidParameter", at)]
          ELSE IF acc.t.map[a] # 0 /\ acc.t.list[acc.t.map[a]].kind = "deleted"
          THEN [acc EXCEPT !.err = LibErr("DeletedTwice", at)]
          ELSE DeleteEach(Tail(ts), at,
                 [acc EXCEPT !.t = TrackIn(acc.t, a, DeletedSlot),
                             !.ws = Append(@, Write("delete", a, NoWrite))])

\* delete(...ts): the table, the deletes and the error it ends with
DeleteResult(c, ts) ==
  LET acc == [t |-> [map |-> trackedMap[c], list |-> trackedList[c]],
              ws |-> << >>, err |-> NoErr]
  IN IF WritesNotAllowed(c)
     THEN [acc EXCEPT !.err = LibErr("WriteAttemptedInReadOnlyTx", runs[c])]
     ELSE DeleteEach(ts, runs[c], acc)

RECURSIVE ApplyEach(_, _)
ApplyEach(ws, st) ==
  IF ws = << >> THEN st
  ELSE ApplyEach(Tail(ws),
         [st EXCEPT ![Head(ws).path] = ApplyWrite(@, Head(ws))])

\* the closure calls delete(...ts); when the call raises, the closure either
\* catches the error and goes on, or lets it propagate
DeleteAll(c, ts, caught) ==
  /\ InClosure(c)
  /\ ts \in TargetSeqs
  /\ LET r == DeleteResult(c, ts)
     IN /\ trackedMap' = [trackedMap EXCEPT ![c] = r.t.map]
        /\ trackedList' = [trackedList EXCEPT ![c] = r.t.list]
        /\ issued' = [issued EXCEPT ![c] = @ \o r.ws]
        /\ IF dbCtx[c] = "tx"
           THEN /\ tx' = [tx EXCEPT ![c].writes = @ \o r.ws]
                /\ UNCHANGED <<store, hist>>
           ELSE /\ store' = ApplyEach(r.ws, store)
                /\ hist' = hist \cup {store'}
                /\ tx' = tx
        /\ touched' = [touched EXCEPT ![c] = @ \/ r.ws # << >>]
        /\ IF r.err = NoErr \/ caught
           THEN /\ nops' = [nops EXCEPT ![c] = @ + 1]
                /\ UNCHANGED ctlVars
           ELSE /\ AttemptFailed(c, r.err)
                /\ nops' = nops
  /\ UNCHANGED <<made, gets, obs, eventIndex, regs, saved, roWrite, options,
                 isUsingTx, hook, libVars, calls, runs, fops>>

TargetOptions == { o \in LegalOptions : o.retries = 0 }

InitTargets == InitWith({1}, TargetOptions, DataStores)

NextTargets ==
  \E c \in Ctxs :
    \/ BeginAttempt(c)
    \/ \E p \in Paths, cim \in BOOLEAN : Few(c) /\ Get(c, p, cim, NewVals)
    \/ \E p \in Paths : Few(c) /\ Create(c, p, NewVals)
    \/ \E ts \in TargetSeqs, caught \in BOOLEAN : DeleteAll(c, ts, caught)
    \/ Return(c, FALSE)

SpecTargets == InitTargets /\ [][NextTargets]_vars

\* the step is a call delete(...ts) by c that raises
DeleteAllRaises(c, ts) ==
  /\ DeleteResult(c, ts).err # NoErr
  /\ \E caught \in BOOLEAN : DeleteAll(c, ts, caught)

\* C40: a call of delete that raises leaves the table of tracked documents
\* and the deletes handed to the driver as they were before the call.
C40_FailedDeleteLeavesTable ==
  [][\A c \in Ctxs, ts \in TargetSeqs :
       DeleteAllRaises(c, ts) =>
         /\ trackedMap'[c] = trackedMap[c]
         /\ trackedList'[c] = trackedList[c]
         /\ issued'[c] = issued[c]]_vars

====
